---- MODULE Spec2Model ----
(***************************************************************************)
(* Resume council (backend/resume.py, backend/packs.py): the outline       *)
(* normalizer, the three-stage deliberation pipeline and its polish gate.   *)
(*                                                                          *)
(* A text is the sequence of its lines (the text is their "\n".join); a     *)
(* line is a string taken from a finite alphabet, and every per-line        *)
(* string function of the code (strip, rstrip, lower, heading               *)
(* normalisation, substring tests) is tabulated over that alphabet.         *)
(***************************************************************************)
EXTENDS Integers, Sequences, FiniteSets, TLC

(***************************************************************************)
(* Bounds                                                                   *)
(***************************************************************************)
MaxLines == 3

MaxPackLines == 2

(***************************************************************************)
(* Lines                                                                    *)
(***************************************************************************)
_REQUIRED_SECTIONS ==
  << "Summary", "Education", "Technical Skills", "Professional Experience",
     "Projects", "Certifications" >>

AllHeadingsLine ==
  "Focus: summary, education, technical skills, professional experience, projects, certifications"

\* str.strip() of one line.
Strip[line \in STRING] ==
  CASE line = "  " -> ""
    [] line = "MSc Data Science " -> "MSc Data Science"
    [] line = "- " -> "-"
    [] line = "  Projects" -> "Projects"
    [] OTHER -> line

\* str.rstrip() of one line.
RStrip[line \in STRING] ==
  CASE line = "  " -> ""
    [] line = "MSc Data Science " -> "MSc Data Science"
    [] line = "- " -> "-"
    [] OTHER -> line

\* str.lstrip() of one line.
LStrip[line \in STRING] ==
  CASE line = "  " -> ""
    [] line = "  Projects" -> "Projects"
    [] OTHER -> line

IsBlank(line) == Strip[line] = ""

\* str.lower() of a stripped line, for the lines the code compares in lower case.
Lower[line \in STRING] ==
  CASE line = "Summary" -> "summary"
    [] line = "Education" -> "education"
    [] line = "Technical Skills" -> "technical skills"
    [] line = "Professional Experience" -> "professional experience"
    [] line = "Projects" -> "projects"
    [] line = "PROJECTS" -> "projects"
    [] line = "Certifications" -> "certifications"
    [] line = "Skills" -> "skills"
    [] line = "N/A" -> "n/a"
    [] line = "- Built ETL in Python" -> "- built etl in python"
    [] line = "- Tuned SQL" -> "- tuned sql"
    [] line = "- **Acme**" -> "- **acme**"
    [] line = "MSc Data Science" -> "msc data science"
    [] line = "- Kaggle" -> "- kaggle"
    [] line = "- AWS" -> "- aws"
    [] OTHER -> line

\* The heading text left after dropping leading '#' and trailing ':' / dashes.
_normalize_heading[line \in STRING] ==
  LET s == Strip[line]
      t == CASE s = "## Projects:" -> "Projects"
             [] s = "# Certifications -" -> "Certifications"
             [] s = "Summary:" -> "Summary"
             [] s = "- " -> ""
             [] s = "-" -> ""
             [] OTHER -> s
  IN Lower[t]

\* The required headings (lower case) occurring as substrings of the lower-cased line.
HeadingWordsIn[line \in STRING] ==
  LET n == _normalize_heading[line]
  IN IF line = AllHeadingsLine
       THEN { Lower[_REQUIRED_SECTIONS[i]] : i \in 1..Len(_REQUIRED_SECTIONS) }
       ELSE { Lower[_REQUIRED_SECTIONS[i]] : i \in 1..Len(_REQUIRED_SECTIONS) }
              \cap {n}

\* The job keywords occurring as substrings of the lower-cased line.
KeywordsIn[line \in STRING] ==
  CASE line = "- Built ETL in Python" -> {"python"}
    [] line = "- Tuned SQL" -> {"sql"}
    [] OTHER -> {}

\* Whether the right-stripped line ends with "**".
EndsWithStars(line) == RStrip[line] \in {"**", "- **Acme**"}

(***************************************************************************)
(* Texts                                                                    *)
(***************************************************************************)
\* Op at the value of arg: as in a Python call, the argument is evaluated
\* once, before the body.
Apply(Op(_), arg) == CHOOSE result \in { Op(v) : v \in {arg} } : TRUE

RECURSIVE DropLeadingBlank(_)
DropLeadingBlank(lines) ==
  IF lines # <<>> /\ IsBlank(Head(lines)) THEN Apply(DropLeadingBlank, Tail(lines))
  ELSE lines

RECURSIVE DropTrailingBlank(_)
DropTrailingBlank(lines) ==
  IF lines # <<>> /\ IsBlank(lines[Len(lines)])
    THEN Apply(DropTrailingBlank, SubSeq(lines, 1, Len(lines) - 1))
  ELSE lines

\* The first line left-stripped and the last right-stripped.
StripEnds(a) ==
  [i \in 1..Len(a) |->
     IF i = 1 /\ i = Len(a) THEN Strip[a[i]]
     ELSE IF i = 1 THEN LStrip[a[i]]
     ELSE IF i = Len(a) THEN RStrip[a[i]]
     ELSE a[i]]

\* str.strip() of a whole text: blank lines at both ends go, the first line is
\* left-stripped and the last right-stripped.
StripText(lines) ==
  Apply(StripEnds, Apply(DropTrailingBlank, Apply(DropLeadingBlank, lines)))

\* (text or "").strip() == ""
IsBlankText(lines) == \A i \in 1..Len(lines) : IsBlank(lines[i])

RECURSIVE SelectNonBlank(_)
SelectNonBlank(lines) ==
  IF lines = <<>> THEN <<>>
  ELSE IF IsBlank(Head(lines)) THEN Apply(SelectNonBlank, Tail(lines))
  ELSE <<Head(lines)>> \o Apply(SelectNonBlank, Tail(lines))

(***************************************************************************)
(* Outline normalizer                                                       *)
(***************************************************************************)
\* next((h for h in _REQUIRED_SECTIONS if norm == h.lower()), None)
MatchedHeading[line \in STRING] ==
  LET n == _normalize_heading[line]
      S == { i \in 1..Len(_REQUIRED_SECTIONS) : Lower[_REQUIRED_SECTIONS[i]] = n }
  IN IF S = {} THEN "" ELSE _REQUIRED_SECTIONS[CHOOSE i \in S : \A j \in S : i <= j]

\* One turn of the loop of _split_resume_sections: st holds the heading being
\* filled (current) and the sections met so far, a function whose domain is the
\* set of their headings.
SplitStep(st, line) ==
  Apply(LAMBDA matched :
          IF matched # ""
            THEN [current |-> matched,
                  sections |-> IF matched \in DOMAIN st.sections THEN st.sections
                               ELSE st.sections @@ (matched :> <<>>)]
          ELSE IF st.current # ""
            THEN [st EXCEPT !.sections[st.current] = Append(@, RStrip[line])]
          ELSE st,
        MatchedHeading[line])

RECURSIVE SplitLoop(_, _, _)
SplitLoop(lines, i, st) ==
  IF i > Len(lines) THEN st.sections
  ELSE Apply(LAMBDA next : SplitLoop(lines, i + 1, next), SplitStep(st, lines[i]))

_split_resume_sections(markdown_text) ==
  SplitLoop(markdown_text, 1, [current |-> "", sections |-> <<>>])

_is_effectively_empty(lines) ==
  Apply(LAMBDA content :
          \/ content = <<>>
          \/ Len(content) = 1 /\ Lower[Strip[content[1]]] = "n/a",
        SelectNonBlank(lines))

known_headings ==
  { "summary", "education", "technical skills", "skills",
    "professional experience", "experience", "projects", "certifications" }

\* The lines _extract_section collects after the heading at index start.
RECURSIVE ExtractTail(_, _)
ExtractTail(lines, j) ==
  IF j > Len(lines) THEN <<>>
  ELSE IF _normalize_heading[lines[j]] \in known_headings THEN <<>>
  ELSE <<RStrip[lines[j]]>> \o ExtractTail(lines, j + 1)

_extract_section(text, section_name) ==
  LET target == Lower[Strip[section_name]]
      S == { i \in 1..Len(text) : _normalize_heading[text[i]] = target }
  IN IF S = {} THEN <<>>
     ELSE LET start == CHOOSE i \in S : \A j \in S : i <= j
          IN StripText(<<Strip[text[start]]>> \o ExtractTail(text, start + 1))

extract_profile_section(text, section_name) == _extract_section(text, section_name)

\* One line of _coerce_bullets after strip(): bullet markers become "- ".
\* "[U+2022]" stands for the bullet character U+2022.
CoerceLine[s \in STRING] ==
  CASE s = "[U+2022] Kaggle" -> "- Kaggle"
    [] s = "* AWS" -> "- AWS"
    [] s = "*" -> "- "
    [] OTHER -> s

RECURSIVE _coerce_bullets(_, _)
_coerce_bullets(lines, max_lines) ==
  IF lines = <<>> \/ max_lines <= 0 THEN <<>>
  ELSE IF IsBlank(Head(lines))
    THEN Apply(LAMBDA rest : _coerce_bullets(rest, max_lines), Tail(lines))
  ELSE <<CoerceLine[Strip[Head(lines)]]>>
       \o Apply(LAMBDA rest : _coerce_bullets(rest, max_lines - 1), Tail(lines))

TruthBulletLines == 3

\* Lines 147-156: what the truth source gives for an empty recoverable section.
FromTruthSource(extracted) ==
  LET extracted_lines == IF Len(extracted) > 1 THEN Tail(extracted) ELSE <<>>
  IN Apply(LAMBDA bullets : IF extracted # <<>> /\ bullets # <<>> THEN bullets ELSE <<"N/A">>,
           _coerce_bullets(extracted_lines, TruthBulletLines))

\* Lines 142-156: the body of a recoverable heading after looking at the truth source.
RecoveredBody(heading, body, profile_pack) ==
  IF ~_is_effectively_empty(body) THEN body
  ELSE Apply(FromTruthSource, StripText(extract_profile_section(profile_pack, heading)))

RECURSIVE DropArtifacts(_)
DropArtifacts(lines) ==
  IF lines = <<>> THEN <<>>
  ELSE IF Strip[Head(lines)] \in {"**", "*"} THEN Apply(DropArtifacts, Tail(lines))
  ELSE <<Head(lines)>> \o Apply(DropArtifacts, Tail(lines))

\* Lines 162-172: the body lines emitted under one heading.
RebuiltBody(content_lines) ==
  LET c1 == IF _is_effectively_empty(content_lines) THEN <<"N/A">> ELSE content_lines
  IN Apply(DropArtifacts, Apply(DropTrailingBlank, Apply(DropLeadingBlank, c1)))

RECURSIVE Rebuild(_, _)
Rebuild(sections, k) ==
  IF k > Len(_REQUIRED_SECTIONS) THEN <<>>
  ELSE LET heading == _REQUIRED_SECTIONS[k]
       IN <<heading>> \o Apply(RebuiltBody, sections[heading]) \o <<"">>
          \o Rebuild(sections, k + 1)

\* The sections filled in with the sentinel alone, the truth source not read.
FilledSections_SentinelOnly(split, profile_pack) ==
  [h \in { _REQUIRED_SECTIONS[i] : i \in 1..Len(_REQUIRED_SECTIONS) } |->
     IF h \in DOMAIN split THEN split[h] ELSE <<"N/A">>]

\* Lines 134-160: the sections of the text, the required ones filled in.
FilledSections(split, profile_pack) ==
  [h \in { _REQUIRED_SECTIONS[i] : i \in 1..Len(_REQUIRED_SECTIONS) } |->
     Apply(LAMBDA body : IF h \in {"Projects", "Certifications"}
                           THEN RecoveredBody(h, body, profile_pack)
                         ELSE body,
           IF h \in DOMAIN split THEN split[h] ELSE <<"N/A">>)]

\* The result is "\n".join(rebuilt).strip() + "\n": as a sequence of lines it ends
\* with one empty line, the text after the final newline.
_ensure_required_outline(markdown_text, profile_pack) ==
  Apply(LAMBDA sections : StripText(Rebuild(sections, 1)) \o <<"">>,
        Apply(LAMBDA split : FilledSections(split, profile_pack),
              _split_resume_sections(markdown_text)))

(***************************************************************************)
(* Configuration (backend/config.py)                                        *)
(***************************************************************************)
NumDraftModels == 3

NumRankingModels == 1

COUNCIL_MODELS ==
  << "openai/gpt-5.1", "google/gemini-3-pro-preview",
     "anthropic/claude-sonnet-4.5", "x-ai/grok-4" >>

\* RESUME_DRAFT_MODELS / RESUME_RANKING_MODELS default to the council; the
\* environment may shorten the lists, here to their first entries.
RESUME_DRAFT_MODELS == SubSeq(COUNCIL_MODELS, 1, NumDraftModels)

RESUME_RANKING_MODELS == SubSeq(COUNCIL_MODELS, 1, NumRankingModels)

RESUME_JUDGE_MODEL == "openai/gpt-5.1"

RESUME_POLISH_MODEL == "google/gemini-3-pro-preview"

\* RESUME_POLISH_THRESHOLD = 0.72, in thousandths.
RESUME_POLISH_THRESHOLD == 720

Range(f) == { f[i] : i \in DOMAIN f }

(***************************************************************************)
(* Heuristics (backend/packs.py) and the gate's inputs                      *)
(***************************************************************************)
\* The required headings found in the lower-cased text (substring test).
HeadingWordsInText(text) == UNION { HeadingWordsIn[text[i]] : i \in 1..Len(text) }

KeywordsInText(text) == UNION { KeywordsIn[text[i]] : i \in 1..Len(text) }

\* round(a / b, 3) in thousandths (Python rounds half to even).
Round3(a, b) ==
  LET q == (1000 * a) \div b
      r == (1000 * a) % b
  IN IF 2 * r < b THEN q
     ELSE IF 2 * r > b THEN q + 1
     ELSE IF q % 2 = 0 THEN q ELSE q + 1

Max(a, b) == IF a >= b THEN a ELSE b

basic_resume_heuristics(resume_markdown, jd_keywords) ==
  LET hits == { i \in 1..Len(jd_keywords) : jd_keywords[i] \in KeywordsInText(resume_markdown) }
      present == HeadingWordsInText(resume_markdown)
  IN [ keyword_hit_rate |-> Round3(Cardinality(hits), Max(1, Len(jd_keywords))),
       section_completeness |-> Round3(Cardinality(present), Len(_REQUIRED_SECTIONS)) ]

\* any(h.lower() not in lower for h in _REQUIRED_SECTIONS)
_missing_required_sections(markdown_text) ==
  \E i \in 1..Len(_REQUIRED_SECTIONS) :
    Lower[_REQUIRED_SECTIONS[i]] \notin HeadingWordsInText(markdown_text)

\* re.search(r"\*\*$", (best_resume or "").strip())
LooksTruncated(text) ==
  LET t == StripText(text)
  IN t # <<>> /\ EndsWithStars(t[Len(t)])

\* 0.5 * keyword_hit_rate + 0.5 * section_completeness, in two-thousandths.
ScoreProxy2(heur) == heur.keyword_hit_rate + heur.section_completeness

\* The gate without its truncation override.
GatePasses_IgnoreTruncation(raw_missing, raw_looks_truncated, heur) ==
  (~raw_missing) /\ ScoreProxy2(heur) >= 2 * RESUME_POLISH_THRESHOLD

\* Line 509: the condition under which the draft is returned without polish.
GatePasses(raw_missing, raw_looks_truncated, heur) ==
  (~raw_missing) /\ (~raw_looks_truncated)
    /\ ScoreProxy2(heur) >= 2 * RESUME_POLISH_THRESHOLD

(***************************************************************************)
(* Model responses                                                          *)
(***************************************************************************)
\* A request is pending, or has resolved to None (failure, timeout) or to
\* {"content": text}.
Pending == [status |-> "pending", content |-> <<>>]

Absent == [status |-> "none", content |-> <<>>]

Ok(text) == [status |-> "ok", content |-> text]

(***************************************************************************)
(* Stage 1                                                                  *)
(***************************************************************************)
\* The collection loop leaving at the first failed or empty response.
RECURSIVE Stage1Results_StopAtFailure(_, _, _)
Stage1Results_StopAtFailure(order, responses, profile_pack) ==
  IF order = <<>> THEN <<>>
  ELSE LET model == Head(order)
           response == responses[model]
       IN IF response.status # "ok" \/ IsBlankText(response.content) THEN <<>>
          ELSE << [ model |-> model,
                    response |-> _ensure_required_outline(StripText(response.content),
                                                          profile_pack) ] >>
               \o Stage1Results_StopAtFailure(Tail(order), responses, profile_pack)

\* The drafts kept as the models wrote them, the outline not enforced.
RECURSIVE Stage1Results_Raw(_, _, _)
Stage1Results_Raw(order, responses, profile_pack) ==
  IF order = <<>> THEN <<>>
  ELSE LET model == Head(order)
           response == responses[model]
       IN Apply(LAMBDA rest :
                  IF response.status # "ok" THEN rest
                  ELSE IF IsBlankText(response.content) THEN rest
                  ELSE << [ model |-> model, response |-> StripText(response.content) ] >>
                       \o rest,
                Stage1Results_Raw(Tail(order), responses, profile_pack))

\* Lines 345-359: the drafts kept from the responses, in the mapping's order.
RECURSIVE Stage1Results(_, _, _)
Stage1Results(order, responses, profile_pack) ==
  IF order = <<>> THEN <<>>
  ELSE LET model == Head(order)
           response == responses[model]
       IN Apply(LAMBDA rest :
                  IF response.status # "ok" THEN rest
                  ELSE IF IsBlankText(response.content) THEN rest
                  ELSE << [ model |-> model,
                            response |-> _ensure_required_outline(
                                           StripText(response.content), profile_pack) ] >>
                       \o rest,
                Stage1Results(Tail(order), responses, profile_pack))

(***************************************************************************)
(* Stage 2                                                                  *)
(***************************************************************************)
\* f"Response {chr(65 + i)}"
LabelName(i) ==
  CASE i = 1 -> "Response A"
    [] i = 2 -> "Response B"
    [] i = 3 -> "Response C"
    [] i = 4 -> "Response D"
    [] OTHER -> "Response E"

\* Labels taken from each model's place in RESUME_DRAFT_MODELS instead of its
\* place among the surviving drafts.
LabelToModel_ByRequestIndex(stage1_results) ==
  [ l \in { LabelName(CHOOSE k \in 1..Len(RESUME_DRAFT_MODELS) :
                        RESUME_DRAFT_MODELS[k] = stage1_results[i].model) :
             i \in 1..Len(stage1_results) } |->
      RESUME_DRAFT_MODELS[CHOOSE k \in 1..Len(RESUME_DRAFT_MODELS) : LabelName(k) = l] ]

\* Lines 364-365 / 409-410.
LabelToModel(stage1_results) ==
  [ l \in { LabelName(i) : i \in 1..Len(stage1_results) } |->
      stage1_results[CHOOSE i \in 1..Len(stage1_results) : LabelName(i) = l].model ]

\* The drafts shown to a ranking model under their producing model's name.
resume_blocks_ByModel(stage1_results) ==
  [ i \in 1..Len(stage1_results) |->
      << stage1_results[i].model, stage1_results[i].response >> ]

\* Lines 366 / 411: the drafts as (label, text) pairs.
resume_blocks(stage1_results) ==
  [ i \in 1..Len(stage1_results) |-> << LabelName(i), stage1_results[i].response >> ]

\* Lines 368-371: the heuristics of each block, under the block's name.
BlockHeuristics(blocks, jd_keywords) ==
  [ l \in { blocks[i][1] : i \in 1..Len(blocks) } |->
      basic_resume_heuristics(blocks[CHOOSE i \in 1..Len(blocks) : blocks[i][1] = l][2],
                              jd_keywords) ]

\* Lines 225-246: the peer-ranking prompt, as the values its template is filled
\* with; the strict-format suffix of line 414 is a fixed text.
_peer_ranking_prompt(blocks, jd_pack, profile_pack) ==
  [ prompt |-> "peer ranking", profile_pack |-> profile_pack, jd_pack |-> jd_pack,
    merged |-> blocks ]

\* Lines 273-309: the judge prompt, as the values its template is filled with.
_judge_prompt(blocks, profile_pack, jd_pack, heuristics) ==
  [ prompt |-> "judge", profile_pack |-> profile_pack, jd_pack |-> jd_pack,
    heuristics |-> heuristics, merged |-> blocks ]

\* Lines 373 / 414-415: the message of the stage-2 requests.
RankingMessage(peer_ranking, stage1_results, jd_keywords, profile_pack) ==
  LET blocks == resume_blocks(stage1_results)
  IN IF peer_ranking THEN _peer_ranking_prompt(blocks, jd_keywords, profile_pack)
     ELSE _judge_prompt(blocks, profile_pack, jd_keywords,
                        BlockHeuristics(blocks, jd_keywords))

NoMessage == [ prompt |-> "none" ]

\* The label a line of a ranking names ("1. Response A"), "" when none.
RankedLabel[line \in STRING] ==
  CASE line = "1. Response A" -> "Response A"
    [] line = "2. Response A" -> "Response A"
    [] line = "3. Response A" -> "Response A"
    [] line = "1. Response B" -> "Response B"
    [] line = "2. Response B" -> "Response B"
    [] line = "1. Response E" -> "Response E"
    [] OTHER -> ""

RECURSIVE LabelsOf(_)
LabelsOf(lines) ==
  IF lines = <<>> THEN <<>>
  ELSE IF RankedLabel[Head(lines)] = "" THEN Apply(LabelsOf, Tail(lines))
  ELSE <<RankedLabel[Head(lines)]>> \o Apply(LabelsOf, Tail(lines))

\* The ranking parser: the numbered labels after the final-ranking marker, the
\* empty list when the text has no marker.
parse_ranking_from_text(text) ==
  LET M == { i \in 1..Len(text) : text[i] = "FINAL RANKING:" }
  IN IF M = {} THEN <<>>
     ELSE LabelsOf(SubSeq(text, (CHOOSE i \in M : \A j \in M : i <= j) + 1, Len(text)))

\* The known labels of the parser's output, repeated ones kept.
_normalize_parsed_ranking_KeepRepeats(parsed, label_to_model) ==
  SelectSeq(parsed, LAMBDA label : label \in DOMAIN label_to_model)

RECURSIVE NormalizeLoop(_, _, _)
NormalizeLoop(parsed, label_to_model, seen) ==
  IF parsed = <<>> THEN <<>>
  ELSE LET label == Head(parsed)
       IN IF label \notin DOMAIN label_to_model
            THEN NormalizeLoop(Tail(parsed), label_to_model, seen)
          ELSE IF label \in seen
            THEN NormalizeLoop(Tail(parsed), label_to_model, seen)
          ELSE <<label>> \o NormalizeLoop(Tail(parsed), label_to_model, seen \cup {label})

_normalize_parsed_ranking(parsed, label_to_model) ==
  Apply(LAMBDA labels : NormalizeLoop(labels, label_to_model, {}), parsed)

\* Lines 393-402: the judge's ordering as an aggregate; average_rank is kept as
\* the fraction num / den.
\* The judge's ordering with positions counted from 0.
JudgeAggregate_FromZero(parsed, label_to_model) ==
  [ idx \in 1..Len(parsed) |->
      [ model |-> label_to_model[parsed[idx]],
        average_rank |-> [num |-> idx - 1, den |-> 1],
        rankings_count |-> 1 ] ]

RECURSIVE JudgeAggregateFrom(_, _, _)
JudgeAggregateFrom(parsed, label_to_model, idx) ==
  IF idx > Len(parsed) THEN <<>>
  ELSE (IF parsed[idx] \in DOMAIN label_to_model
          THEN << [ model |-> label_to_model[parsed[idx]],
                    average_rank |-> [num |-> idx, den |-> 1],
                    rankings_count |-> 1 ] >>
        ELSE <<>>)
       \o JudgeAggregateFrom(parsed, label_to_model, idx + 1)

JudgeAggregate(parsed, label_to_model) == JudgeAggregateFrom(parsed, label_to_model, 1)

\* Lines 382-405: what stage2_judge_resumes returns for the judge's response.
JudgeOutcome(response, stage1_results, jd_keywords) ==
  LET label_to_model == LabelToModel(stage1_results)
      full_text == IF response.status = "ok" THEN response.content ELSE <<>>
      heuristics ==
        [ l \in { LabelName(i) : i \in 1..Len(stage1_results) } |->
            basic_resume_heuristics(
              stage1_results[CHOOSE i \in 1..Len(stage1_results) : LabelName(i) = l].response,
              jd_keywords) ]
  IN Apply(LAMBDA parsed :
             [ rankings |-> << [ model |-> RESUME_JUDGE_MODEL, ranking |-> full_text,
                                 parsed_ranking |-> parsed ] >>,
               metadata |-> [ label_to_model |-> label_to_model,
                              aggregate_rankings |-> JudgeAggregate(parsed, label_to_model),
                              heuristics |-> heuristics ] ],
           _normalize_parsed_ranking(parse_ranking_from_text(full_text), label_to_model))

\* Lines 424-436: the rankings kept from the peers' responses.
RECURSIVE PeerRankings(_, _, _)
PeerRankings(order, responses, label_to_model) ==
  IF order = <<>> THEN <<>>
  ELSE LET model == Head(order)
           response == responses[model]
           Ranking(full_text) ==
             [ model |-> model,
               ranking |-> full_text,
               parsed_ranking |->
                 _normalize_parsed_ranking(parse_ranking_from_text(full_text),
                                           label_to_model) ]
       IN Apply(LAMBDA rest :
                  IF response.status # "ok" THEN rest
                  ELSE IF IsBlankText(response.content) THEN rest
                  ELSE << Apply(Ranking, StripText(response.content)) >> \o rest,
                PeerRankings(Tail(order), responses, label_to_model))

\* The positions (1-indexed) at which the rankings place the model.
RECURSIVE PositionsOf(_, _, _)
PositionsOf(rankings, label_to_model, model) ==
  IF rankings = <<>> THEN <<>>
  ELSE LET parsed == Head(rankings).parsed_ranking
           P == { i \in 1..Len(parsed) :
                    parsed[i] \in DOMAIN label_to_model /\ label_to_model[parsed[i]] = model }
       IN (IF P = {} THEN <<>> ELSE << CHOOSE i \in P : \A j \in P : i <= j >>)
          \o PositionsOf(Tail(rankings), label_to_model, model)

RECURSIVE SumSeq(_)
SumSeq(s) == IF s = <<>> THEN 0 ELSE Head(s) + SumSeq(Tail(s))

\* The models in the order the rankings first name them.
RECURSIVE FirstSeen(_, _)
FirstSeen(labels, label_to_model) ==
  IF labels = <<>> THEN <<>>
  ELSE LET l == labels[Len(labels)]
       IN Apply(LAMBDA rest :
                  IF l \notin DOMAIN label_to_model THEN rest
                  ELSE IF label_to_model[l] \in Range(rest) THEN rest
                  ELSE Append(rest, label_to_model[l]),
                FirstSeen(SubSeq(labels, 1, Len(labels) - 1), label_to_model))

RECURSIVE AllLabels(_)
AllLabels(rankings) ==
  IF rankings = <<>> THEN <<>>
  ELSE Head(rankings).parsed_ranking \o AllLabels(Tail(rankings))

RankLess(a, b) ==
  a.average_rank.num * b.average_rank.den < b.average_rank.num * a.average_rank.den

\* Stable insertion of an entry into a list sorted ascending by average rank.
RECURSIVE InsertByRank(_, _)
InsertByRank(sorted, e) ==
  IF sorted = <<>> THEN <<e>>
  ELSE IF RankLess(e, Head(sorted)) THEN <<e>> \o sorted
  ELSE <<Head(sorted)>> \o Apply(LAMBDA rest : InsertByRank(rest, e), Tail(sorted))

RECURSIVE SortByRank(_)
SortByRank(entries) ==
  IF entries = <<>> THEN <<>>
  ELSE Apply(LAMBDA sorted : InsertByRank(sorted, entries[Len(entries)]),
             SortByRank(SubSeq(entries, 1, Len(entries) - 1)))

\* The rank aggregator: per model the mean of its positions over the orderings
\* that hold it, ascending, ties in first-seen order.
calculate_aggregate_rankings(rankings, label_to_model) ==
  LET Entry(model) ==
        Apply(LAMBDA pos : [ model |-> model,
                             average_rank |-> [num |-> SumSeq(pos), den |-> Len(pos)],
                             rankings_count |-> Len(pos) ],
              PositionsOf(rankings, label_to_model, model))
      Entries(models) == [ k \in 1..Len(models) |-> Entry(models[k]) ]
  IN Apply(SortByRank, Apply(Entries, FirstSeen(Apply(AllLabels, rankings), label_to_model)))

\* Lines 424-440: what stage2_peer_rank_resumes returns for the peers' responses.
PeerOutcome(order, responses, stage1_results) ==
  LET label_to_model == LabelToModel(stage1_results)
  IN Apply(LAMBDA rankings :
             [ rankings |-> rankings,
               metadata |-> [ label_to_model |-> label_to_model,
                              aggregate_rankings |->
                                calculate_aggregate_rankings(rankings, label_to_model) ] ],
           PeerRankings(order, responses, label_to_model))

(***************************************************************************)
(* Stage 3: selection                                                       *)
(***************************************************************************)
MetaGet(metadata, key, default) ==
  IF key \in DOMAIN metadata THEN metadata[key] ELSE default

_best_model_from_metadata(metadata) ==
  LET agg == MetaGet(metadata, "aggregate_rankings", <<>>)
  IN IF agg # <<>> /\ ~IsBlank(agg[1].model) THEN agg[1].model ELSE ""

_pick_best_label(stage2_results) ==
  IF stage2_results = <<>> THEN ""
  ELSE IF stage2_results[1].parsed_ranking # <<>> THEN stage2_results[1].parsed_ranking[1]
  ELSE ""

\* next((r["response"] for r in stage1_results if r["model"] == best_model), "")
ResponseOf(stage1_results, best_model) ==
  LET S == { i \in 1..Len(stage1_results) : stage1_results[i].model = best_model }
  IN IF S = {} THEN <<>> ELSE stage1_results[CHOOSE i \in S : \A j \in S : i <= j].response

\* The selection with the parsed label consulted before the aggregate ranking.
FirstSelection_LabelFirst(stage1_results, stage2_results, metadata) ==
  LET label_to_model == MetaGet(metadata, "label_to_model", <<>>)
      best_model == _best_model_from_metadata(metadata)
      best_label == _pick_best_label(stage2_results)
  IN IF best_label # "" /\ best_label \in DOMAIN label_to_model
       THEN [ model |-> label_to_model[best_label],
              resume |-> ResponseOf(stage1_results, label_to_model[best_label]),
              raised |-> FALSE ]
     ELSE IF best_model # ""
       THEN [ model |-> best_model, resume |-> ResponseOf(stage1_results, best_model),
              raised |-> FALSE ]
     ELSE [ model |-> stage1_results[1].model, resume |-> stage1_results[1].response,
            raised |-> FALSE ]

\* The selection raising when no ranking names a draft, instead of falling back
\* to the first draft.
FirstSelection_RaiseWithoutRanking(stage1_results, stage2_results, metadata) ==
  LET label_to_model == MetaGet(metadata, "label_to_model", <<>>)
      best_model == _best_model_from_metadata(metadata)
      best_label == _pick_best_label(stage2_results)
  IN IF best_model # ""
       THEN [ model |-> best_model, resume |-> ResponseOf(stage1_results, best_model),
              raised |-> FALSE ]
     ELSE IF best_label # "" /\ best_label \in DOMAIN label_to_model
       THEN [ model |-> label_to_model[best_label],
              resume |-> ResponseOf(stage1_results, label_to_model[best_label]),
              raised |-> FALSE ]
     ELSE [ model |-> "", resume |-> <<>>, raised |-> TRUE ]

\* Lines 479-491: the selection before the last resort; raised is the IndexError
\* of stage1_results[0] on an empty list.
FirstSelection(stage1_results, stage2_results, metadata) ==
  LET label_to_model == MetaGet(metadata, "label_to_model", <<>>)
      best_model == _best_model_from_metadata(metadata)
      best_label == _pick_best_label(stage2_results)
  IN IF best_model # ""
       THEN [ model |-> best_model, resume |-> ResponseOf(stage1_results, best_model),
              raised |-> FALSE ]
     ELSE IF best_label # "" /\ best_label \in DOMAIN label_to_model
       THEN [ model |-> label_to_model[best_label],
              resume |-> ResponseOf(stage1_results, label_to_model[best_label]),
              raised |-> FALSE ]
     ELSE IF stage1_results = <<>>
       THEN [ model |-> "", resume |-> <<>>, raised |-> TRUE ]
     ELSE [ model |-> stage1_results[1].model, resume |-> stage1_results[1].response,
            raised |-> FALSE ]

\* The last resort taking the text of the first non-empty draft and keeping the
\* model selected before.
LastResort_TextOnly(sel, stage1_results) ==
  IF sel.raised \/ ~IsBlankText(sel.resume) THEN sel
  ELSE LET S == { i \in 1..Len(stage1_results) : ~IsBlankText(stage1_results[i].response) }
       IN IF S = {} THEN sel
          ELSE LET first == CHOOSE i \in S : \A j \in S : i <= j
               IN [ model |-> sel.model,
                    resume |-> stage1_results[first].response, raised |-> FALSE ]

\* Lines 493-498: the last resort, the first non-empty draft.
LastResort(sel, stage1_results) ==
  IF sel.raised \/ ~IsBlankText(sel.resume) THEN sel
  ELSE LET S == { i \in 1..Len(stage1_results) : ~IsBlankText(stage1_results[i].response) }
       IN IF S = {} THEN sel
          ELSE LET first == CHOOSE i \in S : \A j \in S : i <= j
               IN [ model |-> stage1_results[first].model,
                    resume |-> stage1_results[first].response, raised |-> FALSE ]

SelectBest(stage1_results, stage2_results, metadata) ==
  Apply(LAMBDA sel : LastResort(sel, stage1_results),
        FirstSelection(stage1_results, stage2_results, metadata))

(***************************************************************************)
(* Stage 3: gate and polish                                                 *)
(***************************************************************************)
NoResult == [model |-> "", response |-> <<>>, notes |-> ""]

NoSelection == [model |-> "", raw |-> <<>>, response |-> <<>>]

\* Line 510.
DraftResult(selection) ==
  [ model |-> selection.model, response |-> selection.response,
    notes |-> "Selected best draft (no premium polish)." ]

\* The polish result testing only for a missing response, not for empty text.
PolishResult_OnlyNone(response, selection, profile_pack) ==
  IF response.status # "ok"
    THEN [ model |-> selection.model, response |-> selection.response,
           notes |-> "Premium polish failed; returning best draft." ]
  ELSE [ model |-> RESUME_POLISH_MODEL,
         response |-> _ensure_required_outline(StripText(response.content), profile_pack),
         notes |-> "Premium polish applied." ]

\* Lines 520-524: the result of stage3_finalize once the polish call resolved.
PolishResult(response, selection, profile_pack) ==
  LET polished == IF response.status = "ok" THEN StripText(response.content) ELSE <<>>
  IN IF response.status # "ok" \/ polished = <<>>
       THEN [ model |-> selection.model, response |-> selection.response,
              notes |-> "Premium polish failed; returning best draft." ]
     ELSE [ model |-> RESUME_POLISH_MODEL,
            response |-> _ensure_required_outline(polished, profile_pack),
            notes |-> "Premium polish applied." ]

\* Line 594: the no-content result of run_resume_council.
NoContentResult ==
  [ stage1 |-> <<>>, stage2 |-> <<>>,
    stage3 |-> [model |-> "error", response |-> <<"No models responded.">>],
    metadata |-> <<>> ]

NoReturn == [stage1 |-> <<>>, stage2 |-> <<>>, stage3 |-> NoResult, metadata |-> <<>>]

\* The run never ending after stage 1.
NoDrafts_Never(results) == FALSE

\* Line 593: whether the run ends after stage 1.
NoDrafts(results) == results = <<>>

\* The metadata reporting every requested model as returned.
RunMetadata_AllReturned(metadata, stage1_results, peer_ranking) ==
  metadata @@ [ peer_ranking_used |-> peer_ranking,
                draft_models_requested |-> RESUME_DRAFT_MODELS,
                draft_models_returned |-> RESUME_DRAFT_MODELS,
                draft_models_missing |-> <<>> ]

\* Lines 608-611.
RunMetadata(metadata, stage1_results, peer_ranking) ==
  LET returned == [i \in 1..Len(stage1_results) |-> stage1_results[i].model]
      missing == SelectSeq(RESUME_DRAFT_MODELS, LAMBDA m : m \notin Range(returned))
  IN metadata @@ [ peer_ranking_used |-> peer_ranking,
                   draft_models_requested |-> RESUME_DRAFT_MODELS,
                   draft_models_returned |-> returned,
                   draft_models_missing |-> missing ]

(***************************************************************************)
(* packs.py: texts as sequences of characters                               *)
(***************************************************************************)
\* The characters str.strip() removes, among those of the texts modelled.
IsSpaceChar(c) == c \in { " ", "\t", "\n", "\r" }

\* [ \t]
IsBlankChar(c) == c \in { " ", "\t" }

Min(a, b) == IF a <= b THEN a ELSE b

\* str.lstrip()
LStripChars(t) ==
  LET S == { i \in 1..Len(t) : ~IsSpaceChar(t[i]) }
  IN IF S = {} THEN <<>> ELSE SubSeq(t, CHOOSE i \in S : \A j \in S : i <= j, Len(t))

\* str.rstrip()
RStripChars(t) ==
  LET S == { i \in 1..Len(t) : ~IsSpaceChar(t[i]) }
  IN IF S = {} THEN <<>> ELSE SubSeq(t, 1, CHOOSE i \in S : \A j \in S : j <= i)

\* str.strip()
StripChars(t) == Apply(LStripChars, Apply(RStripChars, t))

\* The characters of a text, each with its place; the characters kept by a
\* test on the places, in order.
KeepPlaces(t, Kept(_), Char(_)) ==
  LET placed == SelectSeq([ i \in 1..Len(t) |-> i ], Kept)
  IN [ k \in 1..Len(placed) |-> Char(placed[k]) ]

\* t.replace("\r\n", "\n").replace("\r", "\n")
ReplaceLineEndings(t) ==
  KeepPlaces(t,
             LAMBDA i : ~(t[i] = "\r" /\ i < Len(t) /\ t[i + 1] = "\n"),
             LAMBDA i : IF t[i] = "\r" THEN "\n" ELSE t[i])

\* re.sub(r"[ \t]+", " ", t)
SqueezeBlanks(t) ==
  KeepPlaces(t,
             LAMBDA i : ~(IsBlankChar(t[i]) /\ i > 1 /\ IsBlankChar(t[i - 1])),
             LAMBDA i : IF IsBlankChar(t[i]) THEN " " ELSE t[i])

\* re.sub(r"\n{3,}", "\n\n", t)
CollapseNewlines(t) ==
  KeepPlaces(t,
             LAMBDA i : ~(t[i] = "\n" /\ i > 2 /\ t[i - 1] = "\n" /\ t[i - 2] = "\n"),
             LAMBDA i : t[i])

\* The normalisation collapsing the newlines before it replaces the line ends.
normalize_text_CollapseFirst(text) ==
  Apply(SqueezeBlanks, Apply(ReplaceLineEndings, Apply(CollapseNewlines, StripChars(text))))

\* Lines 28-33 (and 19-22).
normalize_text(text) ==
  Apply(CollapseNewlines, Apply(SqueezeBlanks, Apply(ReplaceLineEndings, StripChars(text))))

\* Line 25: the 120 characters kept free below the budget.
TruncationReserve == 120

\* "\n\n[TRUNCATED FOR BUDGET]"
TruncationMarker ==
  << "\n", "\n", "[", "T", "R", "U", "N", "C", "A", "T", "E", "D", " ", "F", "O", "R", " ",
     "B", "U", "D", "G", "E", "T", "]" >>

\* t[:k] of Python: a negative k counts from the end of the text.
SliceTo(t, k) ==
  IF k >= 0 THEN SubSeq(t, 1, Min(k, Len(t)))
  ELSE SubSeq(t, 1, Max(0, Len(t) + k))

\* Line 25.
Truncate(t, max_chars) ==
  RStripChars(SliceTo(t, max_chars - TruncationReserve)) \o TruncationMarker

\* Lines 18-25.
compact_text(text, max_chars) ==
  Apply(LAMBDA t : IF Len(t) <= max_chars THEN t ELSE Truncate(t, max_chars),
        normalize_text(text))

\* str.lower(), for the letters of the texts modelled.
UpperChars ==
  << "A", "B", "C", "D", "E", "F", "G", "H", "I", "J", "K", "L", "M", "N", "O", "P", "Q",
     "R", "S", "T", "U", "V", "W", "X", "Y", "Z" >>

LowerChars ==
  << "a", "b", "c", "d", "e", "f", "g", "h", "i", "j", "k", "l", "m", "n", "o", "p", "q",
     "r", "s", "t", "u", "v", "w", "x", "y", "z" >>

LowerChar(c) ==
  IF \E i \in 1..Len(UpperChars) : UpperChars[i] = c
    THEN LowerChars[CHOOSE i \in 1..Len(UpperChars) : UpperChars[i] = c]
  ELSE c

LowerText(t) == [ i \in 1..Len(t) |-> LowerChar(t[i]) ]

\* s.lstrip(c) and s.rstrip(c) for one character c.
LStripChar(t, c) ==
  LET S == { i \in 1..Len(t) : t[i] # c }
  IN IF S = {} THEN <<>> ELSE SubSeq(t, CHOOSE i \in S : \A j \in S : i <= j, Len(t))

RStripChar(t, c) ==
  LET S == { i \in 1..Len(t) : t[i] # c }
  IN IF S = {} THEN <<>> ELSE SubSeq(t, 1, CHOOSE i \in S : \A j \in S : j <= i)

\* pattern in text
Contains(text, pattern) ==
  \E i \in 1..(Len(text) - Len(pattern) + 1) :
    SubSeq(text, i, i + Len(pattern) - 1) = pattern

\* str.splitlines(), for the line ends "\n", "\r\n" and "\r".
splitlines(t) ==
  LET ends == SelectSeq([ i \in 1..Len(t) |-> i ],
                        LAMBDA i : \/ t[i] = "\n"
                                   \/ t[i] = "\r" /\ ~(i < Len(t) /\ t[i + 1] = "\n"))
      First(k) == IF k = 1 THEN 1 ELSE ends[k - 1] + 1
      Last(k) ==
        IF k > Len(ends) THEN Len(t)
        ELSE IF t[ends[k]] = "\n" /\ ends[k] > 1 /\ t[ends[k] - 1] = "\r" THEN ends[k] - 2
        ELSE ends[k] - 1
      n == IF ends = <<>> THEN (IF t = <<>> THEN 0 ELSE 1)
           ELSE IF ends[Len(ends)] = Len(t) THEN Len(ends) ELSE Len(ends) + 1
  IN [ k \in 1..n |-> SubSeq(t, First(k), Last(k)) ]

\* sep.join(parts)
RECURSIVE JoinChars(_, _)
JoinChars(parts, sep) ==
  IF parts = <<>> THEN <<>>
  ELSE IF Len(parts) = 1 THEN parts[1]
  ELSE parts[1] \o sep \o JoinChars(Tail(parts), sep)

\* Lines 40-47: the heading a line of the profile stands for.
HeadingOfChars(line) ==
  LET s == StripChars(line)
      unmarked == IF s # <<>> /\ s[1] = "#" THEN StripChars(LStripChar(s, "#")) ELSE s
  IN LowerText(StripChars(RStripChar(RStripChar(unmarked, ":"), "-")))

\* Lines 50-59, character by character.
known_headings_chars ==
  {
    << "s", "u", "m", "m", "a", "r", "y" >>,
    << "e", "d", "u", "c", "a", "t", "i", "o", "n" >>,
    << "t", "e", "c", "h", "n", "i", "c", "a", "l", " ", "s", "k", "i", "l", "l", "s" >>,
    << "s", "k", "i", "l", "l", "s" >>,
    << "p", "r", "o", "f", "e", "s", "s", "i", "o", "n", "a", "l", " ", "e", "x", "p", "e",
       "r", "i", "e", "n", "c", "e" >>,
    << "e", "x", "p", "e", "r", "i", "e", "n", "c", "e" >>,
    << "p", "r", "o", "j", "e", "c", "t", "s" >>,
    << "c", "e", "r", "t", "i", "f", "i", "c", "a", "t", "i", "o", "n", "s" >>
  }

\* Lines 66-70: the lines after the heading, up to the next known heading.
RECURSIVE SectionTail(_, _)
SectionTail(lines, j) ==
  IF j > Len(lines) THEN <<>>
  ELSE IF HeadingOfChars(lines[j]) \in known_headings_chars THEN <<>>
  ELSE << RStripChars(lines[j]) >> \o SectionTail(lines, j + 1)

\* Lines 36-78, character by character.
_extract_section_chars(text, section_name) ==
  LET lines == splitlines(text)
      target == LowerText(StripChars(section_name))
      S == { i \in 1..Len(lines) : HeadingOfChars(lines[i]) = target }
  IN IF S = {} THEN <<>>
     ELSE LET start == CHOOSE i \in S : \A j \in S : i <= j
          IN StripChars(JoinChars(<< StripChars(lines[start]) >> \o SectionTail(lines, start + 1),
                                  << "\n" >>))

ProjectsName ==
  << "P", "r", "o", "j", "e", "c", "t", "s" >>

CertificationsName ==
  << "C", "e", "r", "t", "i", "f", "i", "c", "a", "t", "i", "o", "n", "s" >>

\* "\n\n---\nPINNED FROM MASTER PROFILE:\n"
PinnedBanner ==
  << "\n", "\n", "-", "-", "-", "\n", "P", "I", "N", "N", "E", "D", " ", "F", "R", "O",
     "M", " ", "M", "A", "S", "T", "E", "R", " ", "P", "R", "O", "F", "I", "L", "E",
     ":", "\n" >>

\* max_chars=None
NoBudget == -1

\* The pack without the pinned block.
build_profile_pack_BaseOnly(master_profile, max_chars) ==
  IF max_chars = NoBudget THEN normalize_text(master_profile)
  ELSE compact_text(master_profile, max_chars)

\* Lines 86-114.
build_profile_pack(master_profile, max_chars) ==
  LET raw == master_profile
      base == IF max_chars = NoBudget THEN normalize_text(raw)
              ELSE compact_text(raw, max_chars)
      projects == _extract_section_chars(raw, ProjectsName)
      certifications == _extract_section_chars(raw, CertificationsName)
      pinned_parts == (IF projects # <<>> THEN << projects >> ELSE <<>>)
                      \o (IF certifications # <<>> THEN << certifications >> ELSE <<>>)
      lower_base == LowerText(base)
      need_append == \/ ~Contains(lower_base, LowerText(ProjectsName))
                     \/ ~Contains(lower_base, LowerText(CertificationsName))
  IN IF pinned_parts = <<>> THEN base
     ELSE IF ~need_append THEN base
     ELSE base \o PinnedBanner \o JoinChars(pinned_parts, << "\n", "\n" >>)

(***************************************************************************)
(* Inputs                                                                   *)
(***************************************************************************)
DraftLines == { "Summary", "## Projects:", "", "N/A", "**", "MSc Data Science " }

PackLines == { "Projects", "# Certifications -", "Skills", "[U+2022] Kaggle", "**" }

SeqsUpTo(S, n) == UNION { [1..k -> S] : k \in 0..n }

\* What a drafting model may answer in a run.
DraftTexts ==
  { << "Summary", "- Built ETL in Python", "Projects", "- Tuned SQL" >>,
    << "Summary", "- Built ETL in Python", "- Tuned SQL", "Certifications", "- **Acme**" >>,
    << "Summary", "**" >> }

DraftResponses == { Absent, Ok(<<"  ">>) } \cup { Ok(t) : t \in DraftTexts }

\* What a ranking model or the judge may answer.
RankingTexts ==
  { << "FINAL RANKING:", "1. Response B", "2. Response A" >>,
    << "FINAL RANKING:", "1. Response E", "2. Response A", "3. Response A" >>,
    << "Both resumes are strong." >> }

RankingResponses == { Absent, Ok(<<"  ">>) } \cup { Ok(t) : t \in RankingTexts }

PolishResponses ==
  { Absent, Ok(<<"  ">>), Ok(<< "Summary", "- Tuned SQL", "- Built ETL in Python" >>),
    Ok(<< "Summary", "**" >>) }

ProfilePacks == { << "Projects", "[U+2022] Kaggle" >> }

KeywordLists == { << "python", "sql" >> }

\* The texts handed to normalize_text: every text of up to MaxTextLen characters.
MaxTextLen == 5

TextChars == { "a", " ", "\t", "\n", "\r" }

ShortTexts == SeqsUpTo(TextChars, MaxTextLen)

Pad(n) == [ i \in 1..n |-> "a" ]

\* The texts handed to compact_text: a gap of up to MaxGapLen characters inside
\* or after a run of letters, short and longer than the reserve.
MaxGapLen == 2

CompactTexts ==
  { Pad(n) \o gap \o Pad(m) :
      n \in { 0, 95, 130 }, gap \in SeqsUpTo(TextChars, MaxGapLen), m \in { 0, 2 } }

\* The budgets handed to compact_text.
Budgets == { 0, 2, 23, 24, 100, 119, 120, 124, 200 }

\* The master profiles handed to build_profile_pack.
ProfileHeads ==
  { <<>>, << "S", "u", "m", "m", "a", "r", "y", "\n", "x", "\n" >>, Pad(130) \o << "\n" >> }

ProfileHeadingLines ==
  { << "P", "r", "o", "j", "e", "c", "t", "s" >>,
    << "#", "#", " ", "p", "r", "o", "j", "e", "c", "t", "s", ":" >>,
    << "P", "R", "O", "J", "E", "C", "T", "S", " ", "-" >>,
    << "M", "y", " ", "P", "r", "o", "j", "e", "c", "t", "s" >>,
    << "P", "r", "o", "j", "e", "c", "t" >> }

ProfileBodies ==
  { <<>>, << "\n", "-", " ", "a" >>,
    << "\n", "C", "e", "r", "t", "i", "f", "i", "c", "a", "t", "i", "o", "n", "s", "\n", "b" >> }

MasterProfiles ==
  { h \o l \o b : h \in ProfileHeads, l \in ProfileHeadingLines, b \in ProfileBodies }

ProfileBudgets == { NoBudget, 10, 120, 60000 }

(***************************************************************************)
(* State                                                                    *)
(***************************************************************************)
VARIABLES
  o_pc, o_text, o_pack, o_out,    \* one call of _ensure_required_outline
  pk_pc, pk_op, pk_text, pk_max,  \* one call of a function of packs.py
  pk_out, pk_again,               \* its result; the result normalised once more
  e_kind, e_request, e_first,     \* one request to an endpoint of main.py that runs a pipeline
  e_pc, e_stage,                  \* where its handler is; the stages of the pipeline completed
  e_title,                        \* the title generation of a first message
  e_writes, e_events,             \* the storage writes made; the events streamed
  pc,                             \* where the run (or the call of stage3_finalize) is
  profile_pack, keywords, peer,   \* the packs and the ranking mode of the run
  draft_slot, arrival,            \* stage 1: each model's request; the order of arrival
  stage1_results,
  rank_slot,                      \* stage 2: each ranking model's (or the judge's) request
  rank_message,                   \* stage 2: the message sent with these requests
  stage2_results, metadata,
  selection,                      \* stage 3: the pre-refinement selection
  polish_slot, stage3_result,
  returned,                       \* what run_resume_council returned
  issued, resolved,               \* the model requests issued / resolved so far
  raised                          \* whether an exception reached the caller

ovars == << o_pc, o_text, o_pack, o_out >>

pvars == << pk_pc, pk_op, pk_text, pk_max, pk_out, pk_again >>

evars == << e_kind, e_request, e_first, e_pc, e_stage, e_title, e_writes, e_events >>

rvars ==
  << pc, profile_pack, keywords, peer, draft_slot, arrival, stage1_results, rank_slot,
     rank_message, stage2_results, metadata, selection, polish_slot, stage3_result, returned, issued,
     resolved, raised >>

vars == << ovars, pvars, evars, rvars >>

OutlineIdle == o_pc = "idle" /\ o_text = <<>> /\ o_pack = <<>> /\ o_out = <<>>

EndpointIdle ==
  /\ e_kind = "none" /\ e_request = "none" /\ e_first = FALSE /\ e_pc = "idle"
  /\ e_stage = 0 /\ e_title = "none" /\ e_writes = <<>> /\ e_events = <<>>

PacksIdle ==
  /\ pk_pc = "idle" /\ pk_op = "none" /\ pk_text = <<>> /\ pk_max = NoBudget
  /\ pk_out = <<>> /\ pk_again = <<>>

RunIdle ==
  /\ draft_slot = <<>> /\ arrival = <<>> /\ stage1_results = <<>>
  /\ rank_slot = <<>> /\ rank_message = NoMessage
  /\ stage2_results = <<>> /\ metadata = <<>>
  /\ selection = NoSelection /\ polish_slot = Absent /\ stage3_result = NoResult
  /\ returned = NoReturn /\ issued = {} /\ resolved = {} /\ raised = FALSE

(***************************************************************************)
(* One call of _ensure_required_outline                                     *)
(***************************************************************************)
InitOutline ==
  /\ o_pc = "call"
  /\ o_text \in SeqsUpTo(DraftLines, MaxLines)
  /\ o_pack \in SeqsUpTo(PackLines, MaxPackLines)
  /\ o_out = <<>>
  /\ PacksIdle
  /\ EndpointIdle
  /\ pc = "idle" /\ profile_pack = <<>> /\ keywords = <<>> /\ peer = FALSE
  /\ RunIdle

EnsureOutline ==
  /\ o_pc = "call"
  /\ o_out' = _ensure_required_outline(o_text, o_pack)
  /\ o_pc' = "returned"
  /\ UNCHANGED << o_text, o_pack, pvars, evars, rvars >>

NextOutline == EnsureOutline

SpecOutline == InitOutline /\ [][NextOutline]_vars

(***************************************************************************)
(* One call of normalize_text, compact_text or build_profile_pack           *)
(***************************************************************************)
InitPacks ==
  /\ OutlineIdle
  /\ EndpointIdle
  /\ pk_pc = "call"
  /\ \/ pk_op = "normalize" /\ pk_text \in ShortTexts /\ pk_max = NoBudget
     \/ pk_op = "compact" /\ pk_text \in CompactTexts /\ pk_max \in Budgets
     \/ pk_op = "build" /\ pk_text \in MasterProfiles /\ pk_max \in ProfileBudgets
  /\ pk_out = <<>> /\ pk_again = <<>>
  /\ pc = "idle" /\ profile_pack = <<>> /\ keywords = <<>> /\ peer = FALSE
  /\ RunIdle

NormalizeText ==
  /\ pk_pc = "call" /\ pk_op = "normalize"
  /\ pk_out' = normalize_text(pk_text)
  /\ pk_pc' = "normalized"
  /\ UNCHANGED << ovars, pk_op, pk_text, pk_max, pk_again, evars, rvars >>

\* normalize_text called on its own result.
NormalizeAgain ==
  /\ pk_pc = "normalized"
  /\ pk_again' = normalize_text(pk_out)
  /\ pk_pc' = "returned"
  /\ UNCHANGED << ovars, pk_op, pk_text, pk_max, pk_out, evars, rvars >>

CompactText ==
  /\ pk_pc = "call" /\ pk_op = "compact"
  /\ pk_out' = compact_text(pk_text, pk_max)
  /\ pk_pc' = "returned"
  /\ UNCHANGED << ovars, pk_op, pk_text, pk_max, pk_again, evars, rvars >>

BuildProfilePack ==
  /\ pk_pc = "call" /\ pk_op = "build"
  /\ pk_out' = build_profile_pack(pk_text, pk_max)
  /\ pk_pc' = "returned"
  /\ UNCHANGED << ovars, pk_op, pk_text, pk_max, pk_again, evars, rvars >>

NextPacks == NormalizeText \/ NormalizeAgain \/ CompactText \/ BuildProfilePack

SpecPacks == InitPacks /\ [][NextPacks]_vars

(***************************************************************************)
(* run_resume_council                                                       *)
(***************************************************************************)
Init ==
  /\ OutlineIdle
  /\ PacksIdle
  /\ EndpointIdle
  /\ pc = "start"
  /\ profile_pack \in ProfilePacks
  /\ keywords \in KeywordLists
  /\ peer \in BOOLEAN
  /\ RunIdle

Requests(kind, models) == { [kind |-> kind, model |-> models[i]] : i \in 1..Len(models) }

AllPending(models) == [ m \in Range(models) |-> Pending ]

AllResolved(slot) == \A m \in DOMAIN slot : slot[m].status # "pending"

\* The mapping query_models_parallel returns lists the models in request order.
ResponseOrder(models, arrived) == models

\* Line 338: stage 1 issues one request per drafting model.
Stage1Start ==
  /\ pc = "start"
  /\ draft_slot' = AllPending(RESUME_DRAFT_MODELS)
  /\ issued' = issued \cup Requests("draft", RESUME_DRAFT_MODELS)
  /\ pc' = "stage1"
  /\ UNCHANGED << ovars, pvars, evars, rank_message, profile_pack, keywords, peer, arrival, stage1_results, rank_slot,
                  stage2_results, metadata, selection, polish_slot, stage3_result,
                  returned, resolved, raised >>

\* One drafting request returns, fails or times out.
DraftResolve ==
  /\ pc = "stage1"
  /\ \E m \in DOMAIN draft_slot, r \in DraftResponses :
       /\ draft_slot[m].status = "pending"
       /\ draft_slot' = [draft_slot EXCEPT ![m] = r]
       /\ arrival' = Append(arrival, m)
       /\ resolved' = resolved \cup {[kind |-> "draft", model |-> m]}
  /\ UNCHANGED << ovars, pvars, evars, rank_message, pc, profile_pack, keywords, peer, stage1_results, rank_slot,
                  stage2_results, metadata, selection, polish_slot, stage3_result,
                  returned, issued, raised >>

\* Whether the awaited batch of requests is over.
BatchDone(slot) == AllResolved(slot)

\* Stage 1 going on without awaiting its batch.
Stage1NotAwaited == TRUE

\* Line 338: stage 1 awaits the batch of drafting requests.
Stage1Awaited == BatchDone(draft_slot)

\* Lines 345-360 and 592-601: the batch is over; the drafts are collected and the
\* run either ends with the no-content result or issues the stage-2 requests.
Stage1Collect ==
  /\ pc = "stage1"
  /\ Stage1Awaited
  /\ \E results \in { Stage1Results(ResponseOrder(RESUME_DRAFT_MODELS, arrival),
                                      draft_slot, profile_pack) } :
        /\ stage1_results' = results
        /\ IF NoDrafts(results)
             THEN /\ returned' = NoContentResult
                  /\ pc' = "done"
                  /\ UNCHANGED << rank_slot, rank_message, issued >>
           ELSE IF peer
             THEN /\ rank_slot' = AllPending(RESUME_RANKING_MODELS)
                  /\ rank_message' = RankingMessage(TRUE, results, keywords, profile_pack)
                  /\ issued' = issued \cup Requests("rank", RESUME_RANKING_MODELS)
                  /\ pc' = "stage2_peer"
                  /\ UNCHANGED returned
           ELSE /\ rank_slot' = AllPending(<<RESUME_JUDGE_MODEL>>)
                /\ rank_message' = RankingMessage(FALSE, results, keywords, profile_pack)
                /\ issued' = issued \cup Requests("judge", <<RESUME_JUDGE_MODEL>>)
                /\ pc' = "stage2_judge"
                /\ UNCHANGED returned
  /\ draft_slot' = <<>>
  /\ arrival' = <<>>
  /\ UNCHANGED << ovars, pvars, evars, profile_pack, keywords, peer, stage2_results, metadata,
                  selection, polish_slot, stage3_result, resolved, raised >>

\* One ranking request (a peer's, or the judge's) returns, fails or times out.
RankResolve ==
  /\ pc \in {"stage2_peer", "stage2_judge"}
  /\ \E m \in DOMAIN rank_slot, r \in RankingResponses :
       /\ rank_slot[m].status = "pending"
       /\ rank_slot' = [rank_slot EXCEPT ![m] = r]
       /\ resolved' = resolved \cup
            {[kind |-> IF pc = "stage2_peer" THEN "rank" ELSE "judge", model |-> m]}
  /\ UNCHANGED << ovars, pvars, evars, rank_message, pc, profile_pack, keywords, peer, draft_slot, arrival,
                  stage1_results, stage2_results, metadata, selection, polish_slot,
                  stage3_result, returned, issued, raised >>

\* Lines 424-440: every peer request resolved; rankings and aggregate.
Stage2PeerCollect ==
  /\ pc = "stage2_peer"
  /\ BatchDone(rank_slot)
  /\ \E out \in { PeerOutcome(RESUME_RANKING_MODELS, rank_slot, stage1_results) } :
        /\ stage2_results' = out.rankings
        /\ metadata' = out.metadata
  /\ rank_slot' = <<>>
  /\ pc' = "stage3"
  /\ UNCHANGED << ovars, pvars, evars, rank_message, profile_pack, keywords, peer, draft_slot, arrival, stage1_results,
                  selection, polish_slot, stage3_result, returned, issued, resolved,
                  raised >>

\* Lines 382-405: the judge's request resolved.
Stage2JudgeCollect ==
  /\ pc = "stage2_judge"
  /\ BatchDone(rank_slot)
  /\ \E out \in { JudgeOutcome(rank_slot[RESUME_JUDGE_MODEL], stage1_results, keywords) } :
        /\ stage2_results' = out.rankings
        /\ metadata' = out.metadata
  /\ rank_slot' = <<>>
  /\ pc' = "stage3"
  /\ UNCHANGED << ovars, pvars, evars, rank_message, profile_pack, keywords, peer, draft_slot, arrival, stage1_results,
                  selection, polish_slot, stage3_result, returned, issued, resolved,
                  raised >>

\* Lines 479-519: selection, normalisation and gate; the draft is returned or
\* the polish request is issued.
Stage3Gate ==
  /\ pc = "stage3"
  /\ \E sel \in { SelectBest(stage1_results, stage2_results, metadata) } :
     \E best_resume \in { _ensure_required_outline(sel.resume, profile_pack) } :
     \E heur \in { basic_resume_heuristics(best_resume, keywords) } :
     LET raw_missing == _missing_required_sections(sel.resume)
         raw_looks_truncated == LooksTruncated(sel.resume)
         chosen == [model |-> sel.model, raw |-> sel.resume, response |-> best_resume]
     IN IF sel.raised
          THEN /\ raised' = TRUE
               /\ pc' = "raised"
               /\ UNCHANGED << selection, stage3_result, polish_slot, issued >>
        ELSE IF GatePasses(raw_missing, raw_looks_truncated, heur)
          THEN /\ selection' = chosen
               /\ stage3_result' = DraftResult(chosen)
               /\ pc' = "finalized"
               /\ UNCHANGED << polish_slot, issued, raised >>
        ELSE /\ selection' = chosen
             /\ polish_slot' = Pending
             /\ issued' = issued \cup Requests("polish", <<RESUME_POLISH_MODEL>>)
             /\ pc' = "polish"
             /\ UNCHANGED << stage3_result, raised >>
  /\ UNCHANGED << ovars, pvars, evars, rank_message, profile_pack, keywords, peer, draft_slot, arrival, stage1_results,
                  rank_slot, stage2_results, metadata, returned, resolved >>

\* Lines 520-524: the polish request returns, fails or times out.
PolishResolve ==
  /\ pc = "polish"
  /\ \E r \in PolishResponses :
       /\ polish_slot' = r
       /\ stage3_result' = PolishResult(r, selection, profile_pack)
  /\ resolved' = resolved \cup Requests("polish", <<RESUME_POLISH_MODEL>>)
  /\ pc' = "finalized"
  /\ UNCHANGED << ovars, pvars, evars, rank_message, profile_pack, keywords, peer, draft_slot, arrival, stage1_results,
                  rank_slot, stage2_results, metadata, selection, returned, issued, raised >>

\* Lines 604-616: run_resume_council returns the stages' results and the metadata.
RunReturn ==
  /\ pc = "finalized"
  /\ \E meta \in { RunMetadata(metadata, stage1_results, peer) } :
       /\ returned' = [ stage1 |-> stage1_results, stage2 |-> stage2_results,
                        stage3 |-> stage3_result, metadata |-> meta ]
       /\ metadata' = meta
  /\ pc' = "done"
  /\ UNCHANGED << ovars, pvars, evars, rank_message, profile_pack, keywords, peer, draft_slot, arrival, stage1_results,
                  rank_slot, stage2_results, selection, polish_slot, stage3_result, issued,
                  resolved, raised >>

Next ==
  \/ Stage1Start
  \/ DraftResolve
  \/ Stage1Collect
  \/ RankResolve
  \/ Stage2PeerCollect
  \/ Stage2JudgeCollect
  \/ Stage3Gate
  \/ PolishResolve
  \/ RunReturn

Spec == Init /\ [][Next]_vars

\* Every request resolves (it returns or times out) and every stage then goes on.
FairSpec == Spec /\ WF_vars(Next)

(***************************************************************************)
(* One call of stage3_finalize on a non-empty draft list                    *)
(***************************************************************************)
MaxDrafts == 2

GhostModel == "x-ai/grok-4"

\* The texts of the drafts handed to stage3_finalize.
FinalizeTexts ==
  { << "  " >>,
    << "Summary", "- Built ETL in Python", AllHeadingsLine >>,
    << "Summary", "- Built ETL in Python", AllHeadingsLine, "- **Acme**" >>,
    << "Summary", AllHeadingsLine >>,
    << "Summary", "- Built ETL in Python", "- Tuned SQL" >> }

FinalizeDrafts ==
  UNION { { [ i \in 1..n |-> [model |-> COUNCIL_MODELS[i], response |-> t[i]] ] :
              t \in [1..n -> FinalizeTexts] } : n \in 1..MaxDrafts }

AggregateEntry(model) ==
  [model |-> model, average_rank |-> [num |-> 1, den |-> 1], rankings_count |-> 1]

FinalizeAggregates(drafts) ==
  { <<>> } \cup { << AggregateEntry(m) >> :
                    m \in { drafts[i].model : i \in 1..Len(drafts) } \cup { GhostModel, "" } }

FinalizeMappings(drafts) ==
  { <<>>, LabelToModel(drafts), "Response A" :> GhostModel }

FinalizeRankings ==
  { <<>> } \cup
  { << [model |-> RESUME_JUDGE_MODEL, ranking |-> <<>>, parsed_ranking |-> p] >> :
      p \in { <<>>, <<"Response A">>, <<"Response B">>, <<"Response E">> } }

InitFinalize ==
  /\ OutlineIdle
  /\ PacksIdle
  /\ EndpointIdle
  /\ pc = "stage3"
  /\ profile_pack \in ProfilePacks
  /\ keywords \in KeywordLists
  /\ peer = FALSE
  /\ stage1_results \in FinalizeDrafts
  /\ stage2_results \in FinalizeRankings
  /\ \E l2m \in FinalizeMappings(stage1_results), agg \in FinalizeAggregates(stage1_results) :
       metadata = [label_to_model |-> l2m, aggregate_rankings |-> agg]
  /\ draft_slot = <<>> /\ arrival = <<>> /\ rank_slot = <<>> /\ rank_message = NoMessage
  /\ selection = NoSelection /\ polish_slot = Absent /\ stage3_result = NoResult
  /\ returned = NoReturn /\ issued = {} /\ resolved = {} /\ raised = FALSE

NextFinalize == Stage3Gate \/ PolishResolve

SpecFinalize == InitFinalize /\ [][NextFinalize]_vars

(***************************************************************************)
(* main.py: one request to run_resume, send_message or send_message_stream  *)
(***************************************************************************)
\* The stages of a pipeline: drafts (responses), rankings, final result.
NumStages == 3

ConversationEndpoints == { "send_message", "send_message_stream" }

\* The requests an endpoint may get: a good one, and those its checks reject.
EndpointRequests(kind) ==
  IF kind = "run_resume"
    THEN { "master_profile", "profile_id", "blank job_description", "profile_id not found",
           "no master profile" }
  ELSE { "conversation found", "conversation not found" }

\* The requests that pass the checks of lines 107-109, 151-153 and 218-230.
GoodRequests == { "master_profile", "profile_id", "conversation found" }

InitEndpoints ==
  /\ OutlineIdle
  /\ PacksIdle
  /\ e_kind \in { "run_resume" } \cup ConversationEndpoints
  /\ e_request \in EndpointRequests(e_kind)
  /\ e_first \in (IF e_kind = "run_resume" THEN { FALSE } ELSE BOOLEAN)
  /\ e_pc = "start" /\ e_stage = 0 /\ e_title = "none"
  /\ e_writes = <<>> /\ e_events = <<>>
  /\ pc = "idle" /\ profile_pack = <<>> /\ keywords = <<>> /\ peer = FALSE
  /\ RunIdle

\* Lines 218-232: run_resume checks the request and awaits run_resume_council.
ResumeBegin ==
  /\ e_kind = "run_resume" /\ e_pc = "start"
  /\ e_pc' = IF e_request \in GoodRequests THEN "pipeline" ELSE "raised"
  /\ UNCHANGED << ovars, pvars, rvars, e_kind, e_request, e_first, e_stage, e_title,
                  e_writes, e_events >>

\* Lines 107-119: send_message stores the user message, then awaits the title
\* of a first message, otherwise run_full_council.
MessageBegin ==
  /\ e_kind = "send_message" /\ e_pc = "start"
  /\ IF e_request \notin GoodRequests
       THEN e_pc' = "raised" /\ UNCHANGED << e_writes, e_title >>
     ELSE /\ e_writes' = Append(e_writes, "user message")
          /\ e_title' = IF e_first THEN "running" ELSE "none"
          /\ e_pc' = IF e_first THEN "title" ELSE "pipeline"
  /\ UNCHANGED << ovars, pvars, rvars, e_kind, e_request, e_first, e_stage, e_events >>

\* Lines 119-123: the awaited title is stored and run_full_council awaited.
MessageTitleAwaited ==
  /\ e_kind = "send_message" /\ e_pc = "title" /\ e_title = "done"
  /\ e_writes' = Append(e_writes, "title")
  /\ e_pc' = "pipeline"
  /\ UNCHANGED << ovars, pvars, rvars, e_kind, e_request, e_first, e_stage, e_title,
                  e_events >>

\* Lines 151-170: send_message_stream stores the user message, starts the title
\* task of a first message without awaiting it, and awaits stage 1.
StreamBegin ==
  /\ e_kind = "send_message_stream" /\ e_pc = "start"
  /\ IF e_request \notin GoodRequests
       THEN e_pc' = "raised" /\ UNCHANGED << e_writes, e_title, e_events >>
     ELSE /\ e_writes' = Append(e_writes, "user message")
          /\ e_title' = IF e_first THEN "running" ELSE "none"
          /\ e_events' = Append(e_events, "stage1_start")
          /\ e_pc' = "pipeline"
  /\ UNCHANGED << ovars, pvars, rvars, e_kind, e_request, e_first, e_stage >>

\* generate_conversation_title returns.
TitleGenerated ==
  /\ e_title = "running"
  /\ e_title' = "done"
  /\ UNCHANGED << ovars, pvars, rvars, e_kind, e_request, e_first, e_pc, e_stage, e_writes,
                  e_events >>

StageEvents(stage) ==
  CASE stage = 1 -> << "stage1_complete", "stage2_start" >>
    [] stage = 2 -> << "stage2_complete", "stage3_start" >>
    [] OTHER -> << "stage3_complete" >>

\* Lines 170-182 (and the awaits of lines 123 and 232): a stage of the awaited
\* pipeline completes.
PipelineStage ==
  /\ e_pc = "pipeline" /\ e_stage < NumStages
  /\ e_stage' = e_stage + 1
  /\ e_events' = IF e_kind = "send_message_stream"
                   THEN e_events \o StageEvents(e_stage + 1) ELSE e_events
  /\ UNCHANGED << ovars, pvars, rvars, e_kind, e_request, e_first, e_pc, e_title, e_writes >>

\* Lines 239-257: run_resume stores the run it got and returns the record.
ResumeFinish ==
  /\ e_kind = "run_resume" /\ e_pc = "pipeline" /\ e_stage = NumStages
  /\ e_writes' = Append(e_writes, "resume run")
  /\ e_pc' = "returned"
  /\ UNCHANGED << ovars, pvars, rvars, e_kind, e_request, e_first, e_stage, e_title,
                  e_events >>

\* Lines 128-141: send_message stores the assistant message and returns.
MessageFinish ==
  /\ e_kind = "send_message" /\ e_pc = "pipeline" /\ e_stage = NumStages
  /\ e_writes' = Append(e_writes, "assistant message")
  /\ e_pc' = "returned"
  /\ UNCHANGED << ovars, pvars, rvars, e_kind, e_request, e_first, e_stage, e_title,
                  e_events >>

\* Lines 185-186: after stage 3 the stream awaits the title task, if any.
StreamAwaitTitle ==
  /\ e_kind = "send_message_stream" /\ e_pc = "pipeline" /\ e_stage = NumStages
  /\ e_title # "none"
  /\ e_pc' = "await_title"
  /\ UNCHANGED << ovars, pvars, rvars, e_kind, e_request, e_first, e_stage, e_title,
                  e_writes, e_events >>

\* Lines 186-199: the title, if any, and the assistant message are stored.
StreamFinish ==
  /\ e_kind = "send_message_stream"
  /\ \/ e_pc = "await_title" /\ e_title = "done"
        /\ e_writes' = e_writes \o << "title", "assistant message" >>
        /\ e_events' = e_events \o << "title_complete", "complete" >>
     \/ e_pc = "pipeline" /\ e_stage = NumStages /\ e_title = "none"
        /\ e_writes' = Append(e_writes, "assistant message")
        /\ e_events' = Append(e_events, "complete")
  /\ e_pc' = "returned"
  /\ UNCHANGED << ovars, pvars, rvars, e_kind, e_request, e_first, e_stage, e_title >>

\* The handler is suspended in an await.
Awaiting == e_pc \in { "title", "pipeline", "await_title" }

\* The awaited call raises; lines 201-203: the stream reports it as an event.
AwaitRaises ==
  /\ Awaiting
  /\ e_pc = "pipeline" => e_stage < NumStages
  /\ e_pc' = "raised"
  /\ e_events' = IF e_kind = "send_message_stream" THEN Append(e_events, "error")
                 ELSE e_events
  /\ UNCHANGED << ovars, pvars, rvars, e_kind, e_request, e_first, e_stage, e_title, e_writes >>

\* The caller goes away while the handler is suspended: the run is abandoned.
Cancelled ==
  /\ Awaiting
  /\ e_pc = "pipeline" => e_stage < NumStages
  /\ e_pc' = "cancelled"
  /\ UNCHANGED << ovars, pvars, rvars, e_kind, e_request, e_first, e_stage, e_title, e_writes,
                  e_events >>

NextEndpoints ==
  \/ ResumeBegin
  \/ MessageBegin
  \/ MessageTitleAwaited
  \/ StreamBegin
  \/ TitleGenerated
  \/ PipelineStage
  \/ ResumeFinish
  \/ MessageFinish
  \/ StreamAwaitTitle
  \/ StreamFinish
  \/ AwaitRaises
  \/ Cancelled

SpecEndpoints == InitEndpoints /\ [][NextEndpoints]_vars

(***************************************************************************)
(* Outline properties                                                       *)
(***************************************************************************)
\* The indices of the heading lines of a text.
HeadingIdx(text) == { i \in 1..Len(text) : MatchedHeading[text[i]] # "" }

\* Every required heading is a heading line exactly once, in the required order.
HeadingsOnceInOrder(text) ==
  LET H == HeadingIdx(text)
  IN /\ Cardinality(H) = Len(_REQUIRED_SECTIONS)
     /\ \A i \in H :
          text[i] = _REQUIRED_SECTIONS[Cardinality({ j \in H : j <= i })]

\* Every heading line is followed by a non-blank line before the next heading.
BodiesNonEmpty(text) ==
  LET H == HeadingIdx(text)
  IN \A i \in H :
       \E j \in (i + 1)..Len(text) :
         /\ ~IsBlank(text[j])
         /\ \A k \in (i + 1)..j : k \notin H

\* C1: the output of _ensure_required_outline holds each of the six required
\* headings as a heading line exactly once, in the fixed order, each followed by
\* at least one non-blank body line before the next heading or the end.
C1_OutlineInvariant ==
  o_pc = "returned" => HeadingsOnceInOrder(o_out) /\ BodiesNonEmpty(o_out)

\* The part of C1 the code does keep: headings once, in order.
C1_HeadingsOnceInOrder ==
  o_pc = "returned" => HeadingsOnceInOrder(o_out)

(***************************************************************************)
(* Pipeline properties                                                      *)
(***************************************************************************)
PolishIssued == [kind |-> "polish", model |-> RESUME_POLISH_MODEL] \in issued

\* The selection of stage 3 has been made.
Selected == pc \in {"polish", "finalized", "done"}

\* The three trigger conditions of the gate, from the selection.
ScoreBelowThreshold ==
  LET heur == basic_resume_heuristics(selection.response, keywords)
  IN heur.keyword_hit_rate + heur.section_completeness < 2 * RESUME_POLISH_THRESHOLD

HeadingMissing == _missing_required_sections(selection.raw)

TruncationDetected == LooksTruncated(selection.raw)

\* C2: the polish model is called if and only if the score proxy is below the
\* threshold, or the selected text misses a required heading, or it looks
\* truncated; when none holds the selected draft is returned unpolished.
C2_GatingDeterminism ==
  Selected =>
    /\ PolishIssued <=> (ScoreBelowThreshold \/ HeadingMissing \/ TruncationDetected)
    /\ (pc = "finalized" /\ ~PolishIssued) =>
         /\ stage3_result.model = selection.model
         /\ stage3_result.response = selection.response

C2_TruncationAlone ==
  PolishIssued /\ TruncationDetected /\ ~HeadingMissing /\ ~ScoreBelowThreshold

C2_ScoreAlone ==
  PolishIssued /\ ~TruncationDetected /\ ~HeadingMissing /\ ScoreBelowThreshold

C2_MissingAlone ==
  PolishIssued /\ ~TruncationDetected /\ HeadingMissing /\ ~ScoreBelowThreshold

C2_NoneHolds ==
  pc = "finalized" /\ ~PolishIssued /\ stage3_result.response = selection.response

Aggregate == MetaGet(metadata, "aggregate_rankings", <<>>)

Mapping == MetaGet(metadata, "label_to_model", <<>>)

\* The index of the model's first non-blank draft, 0 when it has none.
DraftIndex(model) ==
  LET S == { i \in 1..Len(stage1_results) :
               stage1_results[i].model = model /\ ~IsBlankText(stage1_results[i].response) }
  IN IF S = {} THEN 0 ELSE CHOOSE i \in S : \A j \in S : i <= j

\* The index of the first non-blank draft, 1 when every draft is blank.
FirstDraftIndex ==
  LET S == { i \in 1..Len(stage1_results) : ~IsBlankText(stage1_results[i].response) }
  IN IF S = {} THEN 1 ELSE CHOOSE i \in S : \A j \in S : i <= j

\* Strategy (i): the draft of the model at the top of the aggregate ranking.
ByAggregate == IF Aggregate # <<>> THEN DraftIndex(Aggregate[1].model) ELSE 0

\* Strategy (ii): the draft of the model behind the first parsed label of the
\* first ranking result.
ByLabel ==
  IF stage2_results # <<>> /\ stage2_results[1].parsed_ranking # <<>>
       /\ stage2_results[1].parsed_ranking[1] \in DOMAIN Mapping
    THEN DraftIndex(Mapping[stage2_results[1].parsed_ranking[1]])
  ELSE 0

SelectionIs(i) ==
  /\ selection.model = stage1_results[i].model
  /\ selection.raw = stage1_results[i].response

\* Every draft holds text.
NoBlankDraft ==
  \A i \in 1..Len(stage1_results) : ~IsBlankText(stage1_results[i].response)

\* What stages 1 and 2 hand to stage3_finalize: every draft holds text, and the
\* model at the top of a non-empty aggregate ranking has a draft.
HandedOver ==
  /\ NoBlankDraft
  /\ Aggregate # <<>> /\ ~IsBlank(Aggregate[1].model) => DraftIndex(Aggregate[1].model) # 0

\* Every run reaches stage3_finalize with such drafts and metadata.
RunsHandOver == pc \in {"stage3", "polish", "finalized"} => HandedOver

\* C3: the selection is by strict precedence (i) aggregate top, (ii) model of
\* the first parsed label, (iii) first draft; a lower strategy is used only
\* when every higher one yields no draft.
C3_StrictPrecedence ==
  (Selected /\ stage1_results # <<>> /\ HandedOver) =>
    SelectionIs(IF ByAggregate # 0 THEN ByAggregate
                ELSE IF ByLabel # 0 THEN ByLabel
                ELSE FirstDraftIndex)

\* The model the rankings name: the top of the aggregate ranking when it names
\* one, otherwise the model behind the first parsed label, otherwise none.
NamedModel ==
  IF Aggregate # <<>> /\ ~IsBlank(Aggregate[1].model) THEN Aggregate[1].model
  ELSE IF stage2_results # <<>> /\ stage2_results[1].parsed_ranking # <<>>
            /\ stage2_results[1].parsed_ranking[1] \in DOMAIN Mapping
    THEN Mapping[stage2_results[1].parsed_ranking[1]]
  ELSE ""

\* The selection for any drafts and metadata, the last resort of lines 493-498
\* included: the named model's draft when it has a non-blank one, and otherwise
\* the first non-blank draft in draft order.
SelectionWithLastResort ==
  (Selected /\ stage1_results # <<>>) =>
    IF NamedModel # "" /\ DraftIndex(NamedModel) # 0
      THEN SelectionIs(DraftIndex(NamedModel))
    ELSE IF \E i \in 1..Len(stage1_results) : ~IsBlankText(stage1_results[i].response)
      THEN SelectionIs(FirstDraftIndex)
    ELSE IsBlankText(selection.raw)

\* Strategy (ii) decides: the aggregate is empty and the label names a draft
\* that is not the first.
C3_LabelDecides ==
  /\ Selected /\ HandedOver /\ Aggregate = <<>> /\ ByLabel > 1
  /\ SelectionIs(ByLabel)

\* The aggregate's top has no draft while the label names the second draft:
\* the last resort takes the first draft that holds text.
LastResortTaken ==
  /\ Selected /\ Aggregate # <<>> /\ ByAggregate = 0 /\ ByLabel > 1
  /\ SelectionIs(FirstDraftIndex)

\* C4: when no draft survives stage 1 the run returns the no-content result,
\* raises nothing and has issued no ranking, judge or polish request.
C4_NoContent ==
  (pc \notin {"start", "stage1"} /\ stage1_results = <<>>) =>
    /\ pc = "done"
    /\ returned = NoContentResult
    /\ ~raised
    /\ \A r \in issued : r.kind = "draft"

C4_NoContentReturned ==
  /\ pc = "done" /\ returned = NoContentResult
  /\ Requests("draft", RESUME_DRAFT_MODELS) \subseteq resolved

\* C5: every run with a surviving draft eventually returns exactly one final
\* artifact, whatever the ranking, judge and polish requests resolve to, and
\* nothing is raised.
C5_EventuallyOneArtifact ==
  /\ [](~raised)
  /\ (stage1_results # <<>>) ~>
       (pc = "done" /\ returned.stage3 = stage3_result /\ stage3_result # NoResult)

\* A run returns although every ranking request and the polish request failed.
C5_ReturnedDespiteFailures ==
  /\ pc = "done" /\ stage1_results # <<>> /\ stage2_results = <<>>
  /\ PolishIssued /\ polish_slot = Absent
  /\ returned.stage3 = stage3_result

\* The drafts are exactly one per model whose response holds non-blank text,
\* each the normalised text of that model's own response.
DraftsAre(results, slot) ==
  /\ \A m \in DOMAIN slot :
       Cardinality({ i \in 1..Len(results) : results[i].model = m })
         = IF slot[m].status = "ok" /\ ~IsBlankText(slot[m].content) THEN 1 ELSE 0
  /\ \A i \in 1..Len(results) :
       /\ results[i].model \in DOMAIN slot
       /\ results[i].response =
            _ensure_required_outline(StripText(slot[results[i].model].content),
                                     profile_pack)

\* C6: the draft stage completes only after every request has resolved, does
\* not fail, and yields one Draft per model that returned non-blank text, each
\* depending on that model's response alone.
C6_DraftStage ==
  [][ (pc = "stage1" /\ pc' # "stage1") =>
        /\ AllResolved(draft_slot)
        /\ ~raised'
        /\ DraftsAre(stage1_results', draft_slot) ]_vars

\* Stage 1 is over with some models' drafts kept and some models absent.
C6_SomeFailedSomeKept ==
  /\ pc \in {"stage2_peer", "stage2_judge"}
  /\ Len(stage1_results) = 2
  /\ stage1_results[1].model = RESUME_DRAFT_MODELS[1]
  /\ stage1_results[2].model = RESUME_DRAFT_MODELS[3]

\* C7: no ranking or judge request is issued before every drafting request has
\* resolved, and no polish request or selection is made before every ranking or
\* judge request has resolved.
C7_StageOrder ==
  /\ (\E r \in issued : r.kind \in {"rank", "judge"}) =>
       Requests("draft", RESUME_DRAFT_MODELS) \subseteq resolved
  /\ (PolishIssued \/ selection # NoSelection) =>
       /\ \E r \in issued : r.kind \in {"rank", "judge"}
       /\ \A r \in issued : r.kind \in {"draft", "rank", "judge"} => r \in resolved

C7_PolishAfterRanking ==
  /\ PolishIssued /\ pc = "polish"
  /\ Requests("rank", RESUME_RANKING_MODELS) \subseteq resolved

\* C8: when the polish call fails or returns blank text the result is the
\* pre-refinement selection with the polish-failed note and nothing is raised;
\* otherwise it is the normalised polish output under the polish model.
C8_PolishFallback ==
  (pc = "finalized" /\ PolishIssued) =>
    /\ ~raised
    /\ IF polish_slot.status # "ok" \/ IsBlankText(polish_slot.content)
         THEN stage3_result =
                [ model |-> selection.model,
                  response |-> _ensure_required_outline(selection.raw, profile_pack),
                  notes |-> "Premium polish failed; returning best draft." ]
       ELSE /\ stage3_result.model = RESUME_POLISH_MODEL
            /\ stage3_result.response =
                 _ensure_required_outline(StripText(polish_slot.content), profile_pack)

C8_BlankPolishFellBack ==
  /\ pc = "finalized" /\ PolishIssued
  /\ polish_slot.status = "ok" /\ IsBlankText(polish_slot.content)
  /\ stage3_result.model = selection.model

\* C9: every run returns one final artifact whose text holds every required
\* section once, in order, with a non-empty body, the no-content run included.
C9_FinalArtifactOutline ==
  pc = "done" =>
    /\ HeadingsOnceInOrder(returned.stage3.response)
    /\ BodiesNonEmpty(returned.stage3.response)

\* The same for the runs in which a draft survives.
C9_FinalArtifactOutlineWithDrafts ==
  (pc = "done" /\ stage1_results # <<>>) =>
    /\ HeadingsOnceInOrder(returned.stage3.response)
    /\ BodiesNonEmpty(returned.stage3.response)

\* The place of a model in RESUME_DRAFT_MODELS.
RequestIndex(model) ==
  CHOOSE k \in 1..Len(RESUME_DRAFT_MODELS) : RESUME_DRAFT_MODELS[k] = model

\* C10: the surviving drafts are labelled Response A, B, ... consecutively in
\* the order the drafting models were requested, and label_to_model is a
\* bijection between these labels and the models of the surviving drafts.
C10_Labels ==
  (pc \in {"stage3", "polish", "finalized", "done"} /\ stage1_results # <<>>) =>
    LET n == Len(stage1_results)
    IN /\ DOMAIN Mapping = { LabelName(i) : i \in 1..n }
       /\ \A i \in 1..n : Mapping[LabelName(i)] = stage1_results[i].model
       /\ \A i, j \in 1..n : i < j =>
            /\ Mapping[LabelName(i)] # Mapping[LabelName(j)]
            /\ RequestIndex(stage1_results[i].model) < RequestIndex(stage1_results[j].model)

\* The first drafting model failed: label A stands for the second model.
C10_FirstModelAbsent ==
  /\ pc = "stage3" /\ Len(stage1_results) = 2
  /\ Mapping["Response A"] = RESUME_DRAFT_MODELS[2]
  /\ Mapping["Response B"] = RESUME_DRAFT_MODELS[3]

\* The same drafts, in the same order, produced by other models.
OtherProducers(drafts) ==
  { [ i \in 1..Len(drafts) |-> [drafts[i] EXCEPT !.model = f[i]] ] :
      f \in { g \in [1..Len(drafts) -> Range(COUNCIL_MODELS) \cup {GhostModel}] :
                \A i, j \in 1..Len(drafts) : i # j => g[i] # g[j] } }

RankingMessageSent == rank_message # NoMessage

\* C11: the message sent to the ranking models or to the judge is the one any
\* other assignment of producing models to the same drafts would have sent, and
\* it names the drafts by their labels only.
C11_AnonymousPrompts ==
  RankingMessageSent =>
    /\ \A other \in OtherProducers(stage1_results) :
         RankingMessage(peer, other, keywords, profile_pack) = rank_message
    /\ \A i \in 1..Len(rank_message.merged) :
         /\ rank_message.merged[i][1] = LabelName(i)
         /\ rank_message.merged[i][1] \notin Range(COUNCIL_MODELS)

\* Two drafts went to the peers, the first of them not by the first model.
C11_PeerPromptSent ==
  /\ RankingMessageSent /\ peer /\ pc = "stage2_peer"
  /\ Len(stage1_results) = 2
  /\ stage1_results[1].model = RESUME_DRAFT_MODELS[2]
  /\ rank_message.merged[1] = << "Response A", stage1_results[1].response >>

\* The place of a label's first occurrence in a list, 0 when it has none.
FirstIndex(list, label) ==
  LET S == { i \in 1..Len(list) : list[i] = label }
  IN IF S = {} THEN 0 ELSE CHOOSE i \in S : \A j \in S : i <= j

\* What the parser read in the stored raw text of a ranking result.
ParserOutput(result) == parse_ranking_from_text(result.ranking)

\* C12: every stored parsed ranking holds only labels of the run's
\* label_to_model, holds no label twice, and keeps the labels in the order of
\* their first occurrence in the parser's output.
C12_ParsedRanking ==
  (pc \in {"stage3", "polish", "finalized", "done"} /\ stage1_results # <<>>) =>
    \A k \in 1..Len(stage2_results) :
      LET parsed == stage2_results[k].parsed_ranking
          raw == ParserOutput(stage2_results[k])
      IN /\ \A i \in 1..Len(parsed) : parsed[i] \in DOMAIN Mapping
         /\ \A i, j \in 1..Len(parsed) : i # j => parsed[i] # parsed[j]
         /\ \A i, j \in 1..Len(parsed) :
              i < j => /\ FirstIndex(raw, parsed[i]) # 0
                       /\ FirstIndex(raw, parsed[i]) < FirstIndex(raw, parsed[j])
         /\ \A l \in Range(raw) : l \in DOMAIN Mapping => l \in Range(parsed)

\* The parser read an unknown label and a repeated one; one label was kept.
C12_UnknownAndRepeatedDropped ==
  /\ pc = "stage3" /\ stage2_results # <<>>
  /\ ParserOutput(stage2_results[1]) = << "Response E", "Response A", "Response A" >>
  /\ stage2_results[1].parsed_ranking = << "Response A" >>

\* C13: in judge mode the aggregate ranking is the judge's parsed ordering
\* mapped through label_to_model: position i gives average rank i and count 1,
\* ascending, no model twice, and no model whose label the ordering lacks.
C13_JudgeAggregate ==
  (~peer /\ pc \in {"stage3", "polish", "finalized", "done"} /\ stage1_results # <<>>) =>
    LET parsed == stage2_results[1].parsed_ranking
    IN /\ Len(stage2_results) = 1
       /\ Len(Aggregate) = Len(parsed)
       /\ \A i \in 1..Len(parsed) :
            Aggregate[i] = [ model |-> Mapping[parsed[i]],
                             average_rank |-> [num |-> i, den |-> 1],
                             rankings_count |-> 1 ]
       /\ \A i, j \in 1..Len(Aggregate) :
            i < j => /\ Aggregate[i].model # Aggregate[j].model
                     /\ RankLess(Aggregate[i], Aggregate[j])
       /\ \A l \in DOMAIN Mapping :
            l \notin Range(parsed) =>
              \A i \in 1..Len(Aggregate) : Aggregate[i].model # Mapping[l]

\* The judge ranked B before A over two drafts.
C13_JudgeRankedBThenA ==
  /\ ~peer /\ pc = "stage3" /\ Len(stage1_results) = 2
  /\ stage2_results[1].parsed_ranking = << "Response B", "Response A" >>
  /\ Aggregate[1].model = stage1_results[2].model
  /\ Aggregate[1].average_rank = [num |-> 1, den |-> 1]
  /\ Aggregate[2].model = stage1_results[1].model
  /\ Aggregate[2].average_rank = [num |-> 2, den |-> 1]

\* C14: in the metadata of a run with a surviving draft, draft_models_returned
\* lists the models of the drafts, draft_models_missing the requested models
\* without a draft; the two are disjoint and cover the requested models.
C14_ReturnedAndMissing ==
  (pc = "done" /\ stage1_results # <<>>) =>
    LET meta == returned.metadata
    IN /\ meta.draft_models_returned =
            [ i \in 1..Len(stage1_results) |-> stage1_results[i].model ]
       /\ Range(meta.draft_models_missing) =
            Range(RESUME_DRAFT_MODELS) \ { stage1_results[i].model : i \in 1..Len(stage1_results) }
       /\ \A i, j \in 1..Len(meta.draft_models_missing) :
            i # j => meta.draft_models_missing[i] # meta.draft_models_missing[j]
       /\ Range(meta.draft_models_returned) \cap Range(meta.draft_models_missing) = {}
       /\ Range(meta.draft_models_returned) \cup Range(meta.draft_models_missing)
            = Range(RESUME_DRAFT_MODELS)

\* The second drafting model gave no draft and is the one listed as missing.
C14_SecondModelMissing ==
  /\ pc = "done" /\ Len(stage1_results) = 2
  /\ returned.metadata.draft_models_missing = << RESUME_DRAFT_MODELS[2] >>
  /\ returned.metadata.draft_models_returned = << RESUME_DRAFT_MODELS[1], RESUME_DRAFT_MODELS[3] >>

EndsWith(text, suffix) ==
  /\ Len(text) >= Len(suffix)
  /\ SubSeq(text, Len(text) - Len(suffix) + 1, Len(text)) = suffix

CompactReturned == pk_pc = "returned" /\ pk_op = "compact"

\* C15: when the normalised text is longer than the budget, compact_text returns
\* at most the budget's number of characters, ending with the truncation
\* marker; otherwise it returns the normalised text.
C15_TruncationBound ==
  CompactReturned =>
    IF Len(normalize_text(pk_text)) > pk_max
      THEN Len(pk_out) <= pk_max /\ EndsWith(pk_out, TruncationMarker)
    ELSE pk_out = normalize_text(pk_text)

\* The same for the budgets that leave room for the reserve.
C15_BoundFromReserve ==
  (CompactReturned /\ pk_max >= TruncationReserve) =>
    IF Len(normalize_text(pk_text)) > pk_max
      THEN Len(pk_out) <= pk_max /\ EndsWith(pk_out, TruncationMarker)
    ELSE pk_out = normalize_text(pk_text)

\* What holds for every budget: the marker ends a truncated text, and a text
\* within the budget is the normalised text.
C15_MarkerOrNormalized ==
  CompactReturned =>
    IF Len(normalize_text(pk_text)) > pk_max
      THEN EndsWith(pk_out, TruncationMarker)
    ELSE pk_out = normalize_text(pk_text)

\* A text was cut to fit a budget above the reserve.
C15_TruncatedWithinBudget ==
  /\ CompactReturned /\ pk_max = 124 /\ Len(normalize_text(pk_text)) > pk_max
  /\ Len(pk_out) <= pk_max

BuildReturned == pk_pc = "returned" /\ pk_op = "build"

\* The original text has a line that is the Projects heading.
HasProjectsHeading(text) ==
  \E k \in 1..Len(splitlines(text)) :
    HeadingOfChars(splitlines(text)[k]) = LowerText(ProjectsName)

\* The compacted or normalised base text of the pack.
BaseText(text, max_chars) ==
  IF max_chars = NoBudget THEN normalize_text(text) ELSE compact_text(text, max_chars)

MentionsProjects(text) == Contains(LowerText(text), LowerText(ProjectsName))

\* C16: when the original text has a Projects section and the base text does
\* not contain "projects" in any case, the output of build_profile_pack does.
C16_ProjectsPinned ==
  (BuildReturned /\ HasProjectsHeading(pk_text)
     /\ ~MentionsProjects(BaseText(pk_text, pk_max))) =>
    /\ MentionsProjects(pk_out)
    /\ Contains(pk_out, PinnedBanner \o _extract_section_chars(pk_text, ProjectsName))

\* The truncation cut the Projects section away and the pack pinned it.
C16_PinnedAfterTruncation ==
  /\ BuildReturned /\ HasProjectsHeading(pk_text) /\ pk_max = 120
  /\ ~MentionsProjects(BaseText(pk_text, pk_max))
  /\ EndsWith(BaseText(pk_text, pk_max), TruncationMarker)
  /\ MentionsProjects(pk_out)

\* C17: normalize_text applied to its own result returns that result.
C17_Idempotent ==
  (pk_pc = "returned" /\ pk_op = "normalize") => pk_again = pk_out

\* A text the normalisation changed, and did not change again.
C17_ChangedOnce ==
  /\ pk_pc = "returned" /\ pk_op = "normalize"
  /\ pk_out # pk_text /\ pk_out # <<>>
  /\ pk_again = pk_out

\* The run ended, cancelled or by an exception, before its final stage completed.
AbandonedEarly == e_pc \in { "cancelled", "raised" } /\ e_stage < NumStages

\* C18: a run that is cancelled or raises before its final stage completes has
\* written nothing to storage.
C18_NoPartialPersistence ==
  AbandonedEarly => e_writes = <<>>

\* The same for run_resume alone.
C18_ResumeRunWritesLast ==
  (e_kind = "run_resume" /\ e_pc # "returned") => e_writes = <<>>

\* C19: the title of a first message is awaited only when the main stages are
\* over, on both conversation endpoints.
C19_TitleNeverBlocks ==
  (e_kind \in ConversationEndpoints /\ e_pc \in { "title", "await_title" }) =>
    e_stage = NumStages

\* The same for send_message_stream alone, where stage 1 is also seen to
\* complete while the title is still being generated.
C19_StreamTitleNeverBlocks ==
  (e_kind = "send_message_stream" /\ e_pc \in { "title", "await_title" }) =>
    e_stage = NumStages

C19_StreamStageBeforeTitle ==
  e_kind = "send_message_stream" /\ e_stage >= 1 /\ e_title = "running"

\* The required headings the input text has no heading line for.
MissingHeadings(text) ==
  { _REQUIRED_SECTIONS[i] : i \in 1..Len(_REQUIRED_SECTIONS) }
    \ DOMAIN _split_resume_sections(text)

\* The body lines the output holds under a heading.
OutputBody(text, heading) ==
  DropTrailingBlank(DropLeadingBlank(_split_resume_sections(text)[heading]))

\* What the truth source holds under a heading: up to TruthBulletLines lines
\* as bullets, <<"N/A">> when it holds none.
TruthBullets(pack, heading) ==
  FromTruthSource(StripText(extract_profile_section(pack, heading)))

EmptyRecoverable(text) ==
  { h \in { "Projects", "Certifications" } \cap DOMAIN _split_resume_sections(text) :
      _is_effectively_empty(_split_resume_sections(text)[h]) }

\* The first n lines of a text.
FirstLines(lines, n) == SubSeq(lines, 1, IF Len(lines) < n THEN Len(lines) ELSE n)

\* The first at most TruthBulletLines non-blank lines the truth source holds
\* under a heading, the heading line left out, each as a bullet; <<"N/A">> when
\* there is none.
FirstTruthLines(pack, heading) ==
  LET section == StripText(extract_profile_section(pack, heading))
      found == FirstLines(SelectNonBlank(IF section = <<>> THEN <<>> ELSE Tail(section)),
                          TruthBulletLines)
  IN IF found = <<>> THEN << "N/A" >>
     ELSE [ i \in 1..Len(found) |-> CoerceLine[Strip[found[i]]] ]

\* The four required headings that are never recovered from the truth source.
PlainHeadings ==
  { _REQUIRED_SECTIONS[i] : i \in 1..Len(_REQUIRED_SECTIONS) } \ { "Projects", "Certifications" }

\* The bodies of the plain headings do not depend on the truth source.
TruthSourceIgnored ==
  \A h \in PlainHeadings :
    OutputBody(o_out, h) = OutputBody(_ensure_required_outline(o_text, <<>>), h)

\* C21: a Projects or Certifications section present in the input but
\* effectively empty gets as its body the first at most three non-empty lines
\* the truth source holds under that heading, "N/A" when it holds none; the
\* truth source never changes the four other headings.
C21_EmptyRecoverableFromTruth ==
  o_pc = "returned" =>
    /\ \A h \in EmptyRecoverable(o_text) : OutputBody(o_out, h) = FirstTruthLines(o_pack, h)
    /\ TruthSourceIgnored

\* What the code does for these sections: the lines of the truth source that
\* are only "**" or "*" are dropped after the count, and the body may be empty.
C21_EmptyRecoverableSansArtifacts ==
  o_pc = "returned" =>
    /\ \A h \in EmptyRecoverable(o_text) :
         OutputBody(o_out, h) = DropArtifacts(FirstTruthLines(o_pack, h))
    /\ TruthSourceIgnored

\* An empty Projects section recovered from a truth source whose Projects
\* section holds only "**": the body is neither that line nor "N/A".
C21_RecoveredBodyEmpty ==
  /\ o_pc = "returned"
  /\ "Projects" \in EmptyRecoverable(o_text)
  /\ FirstTruthLines(o_pack, "Projects") = << "**" >>
  /\ OutputBody(o_out, "Projects") = <<>>

\* An empty Projects section recovered from the bullet of the truth source.
C21_EmptyProjectsRecovered ==
  /\ o_pc = "returned"
  /\ "Projects" \in EmptyRecoverable(o_text)
  /\ OutputBody(o_out, "Projects") = << "- Kaggle" >>

\* The selection is one of the drafts of stage 1, model and text together.
SelectedIsDraft ==
  \E i \in 1..Len(stage1_results) : SelectionIs(i)

\* The section-completeness term of the score proxy, in thousandths.
SectionCompleteness ==
  basic_resume_heuristics(selection.response, keywords).section_completeness

\* 0.5 * keywordHitRate + 0.5 < RESUME_POLISH_THRESHOLD, in two-thousandths.
HitRateBelowThreshold ==
  basic_resume_heuristics(selection.response, keywords).keyword_hit_rate + 1000
    < 2 * RESUME_POLISH_THRESHOLD

\* C22: in a run of run_resume_council the text stage3_finalize selects is an
\* outline-normalized draft of stage 1: no required heading is missing from it,
\* the section-completeness term is 1, and the polish call is made exactly when
\* the draft ends with "**" or 0.5 * keywordHitRate + 0.5 is below the threshold.
C22_GateInRun ==
  (Selected /\ stage1_results # <<>>) =>
    /\ SelectedIsDraft
    /\ HeadingsOnceInOrder(selection.raw)
    /\ ~HeadingMissing
    /\ SectionCompleteness = 1000
    /\ PolishIssued <=> (TruncationDetected \/ HitRateBelowThreshold)

\* A run whose selected draft names every job keyword and ends with "**": the
\* polish call is made for the truncation alone.
C22_PolishedForTruncation ==
  /\ pc = "polish" /\ PolishIssued
  /\ TruncationDetected /\ ~HitRateBelowThreshold /\ ~HeadingMissing

\* A run whose selected draft passes the gate.
C22_DraftPassedGate ==
  /\ pc = "finalized" /\ ~PolishIssued
  /\ ~TruncationDetected /\ ~HitRateBelowThreshold

\* The text normalized once more against the same truth source.
NormalizedAgain(text, pack) == _ensure_required_outline(text, pack)

\* C23: _ensure_required_outline is idempotent for a fixed truth source:
\* normalizing its own output against the same truth source returns that output.
C23_OutlineIdempotent ==
  o_pc = "returned" => NormalizedAgain(o_out, o_pack) = o_out

\* The consequence C23 draws for stage3_finalize: re-normalizing the selected
\* draft of stage 1 leaves its text unchanged.
C23_RenormalizationUnchanged ==
  (Selected /\ stage1_results # <<>>) => selection.response = selection.raw

\* A section emptied by the artifact filter gets the sentinel on the second pass.
C23_SecondPassAddsSentinel ==
  /\ o_pc = "returned"
  /\ OutputBody(o_out, "Summary") = <<>>
  /\ OutputBody(NormalizedAgain(o_out, o_pack), "Summary") = << "N/A" >>

\* The polish call was made and its output, holding text, was used.
PolishUsed ==
  PolishIssued /\ polish_slot.status = "ok" /\ ~IsBlankText(polish_slot.content)

\* The index of the draft of the final model, 0 when no draft is that model's.
FinalDraft ==
  LET S == { i \in 1..Len(stage1_results) : stage1_results[i].model = stage3_result.model }
  IN IF S = {} THEN 0 ELSE CHOOSE i \in S : \A j \in S : i <= j

\* The final text is the outline-normalized text of the final model's draft.
FinalTextOfFinalDraft ==
  stage3_result.response =
    _ensure_required_outline(stage1_results[FinalDraft].response, profile_pack)

\* C24 as stated: the final model is the polish model exactly when the polish
\* output was used, and otherwise the model of a draft; whenever it is the model
\* of a draft, the final text is the outline-normalized text of that draft.
C24_FinalModelAndText ==
  (pc = "finalized" /\ NoBlankDraft) =>
    /\ (stage3_result.model = RESUME_POLISH_MODEL) <=> PolishUsed
    /\ stage3_result.model = RESUME_POLISH_MODEL \/ FinalDraft # 0
    /\ FinalDraft # 0 => FinalTextOfFinalDraft

\* C24: when the polish output was used the final model is the polish model
\* and the final text the outline-normalized polish output; otherwise the final
\* model is the model of one of the drafts and the final text the
\* outline-normalized text of that same draft, also when the top of the
\* aggregate ranking names a model that has no draft.
C24_FinalModelOrPolish ==
  (pc = "finalized" /\ NoBlankDraft) =>
    IF PolishUsed
      THEN /\ stage3_result.model = RESUME_POLISH_MODEL
           /\ stage3_result.response =
                _ensure_required_outline(StripText(polish_slot.content), profile_pack)
    ELSE /\ FinalDraft # 0
         /\ FinalTextOfFinalDraft

\* The top of the aggregate ranking names a model without a draft and no polish
\* output was used: model and text are both those of the first draft.
C24_FellBackToFirstDraft ==
  /\ pc = "finalized" /\ NoBlankDraft /\ ~PolishUsed
  /\ Aggregate # <<>> /\ Aggregate[1].model = GhostModel
  /\ FinalDraft = 1 /\ FinalTextOfFinalDraft

\* The selected draft was written by the model that is also the polish model
\* and was returned without polish.
C24_DraftOfPolishModelReturned ==
  /\ pc = "finalized" /\ NoBlankDraft /\ ~PolishIssued
  /\ stage3_result.model = RESUME_POLISH_MODEL /\ FinalDraft # 0
  /\ FinalTextOfFinalDraft

\* Every draft is blank and the aggregate names a model without a draft: the
\* model returned with a failed polish is that model.
C24_NoDraftHoldsText ==
  /\ pc = "finalized" /\ ~NoBlankDraft /\ ~PolishUsed
  /\ stage3_result.model = GhostModel

====
